---- MODULE Spec2Model ----
(***************************************************************************)
(* Model of panel-mcp-server's query orchestration: the Semaphore gate     *)
(* (providers/rate-limiter), model resolution, queryModel / queryModels    *)
(* (providers/index.ts), the tools of index.ts (query_model,               *)
(* council_query, debate, critique, challenge) and the environment         *)
(* getters of constants.ts.                                                *)
(*                                                                         *)
(* JavaScript runs one job at a time: the code between two awaits is       *)
(* atomic, so every action below is one such stretch of code.              *)
(***************************************************************************)
EXTENDS Integers, Sequences, FiniteSets, TLC

\* ------------------------------------------------------------------ bounds
MaxPermits == 2
MaxTasks == 3
MaxModels == 3
MaxRounds == 2

\* --------------------------------------------------------------- constants
NoCall == 0

\* The direct users of the gate (the Semaphore tests' tasks).
TaskIds == 1..MaxTasks

\* The queryModel calls of one queryModels: call i is for models[i].
FanCalls == 1..MaxModels

VARIABLES
    permits,        \* Semaphore.permits
    waitQueue,      \* Semaphore.waitQueue: the calls whose resolve is queued
    maxConcurrent,  \* the value the Semaphore was constructed with
    calls,          \* one record per call into the gate
    arrivals,       \* history: the unfinished calls in the order they called acquire
    configured,     \* the providers whose API key is set in the environment
    providers,      \* the lazily created provider instances
    fan,            \* one council_query / queryModels invocation
    debate,         \* one debate invocation
    critique,       \* one critique invocation
    challenge,      \* one challenge invocation
    env,            \* process.env: the PANEL_* variables
    defaultModels   \* what getDefaultModels() returned, once called

vars == <<permits, waitQueue, maxConcurrent, calls, arrivals, configured, providers,
          fan, debate, critique, challenge, env, defaultModels>>

CallIds == DOMAIN calls

\* ------------------------------------------------------------- helpers
Range(s) == {s[i] : i \in 1..Len(s)}

IndexOf(s, x) == CHOOSE i \in 1..Len(s) : s[i] = x

Without(s, x) == SelectSeq(s, LAMBDA y : y # x)

\* A call that has not entered the gate.
NoResult == [pending |-> TRUE]

IdleCall ==
    [pc |-> "idle", kind |-> "none", via |-> "none", exit |-> "none",
     acquired |-> 0, released |-> 0, model |-> <<>>, result |-> NoResult]

\* first is history: the call of the fan-out whose gated query settled first.
IdleFan == [status |-> "idle", models |-> <<>>, first |-> NoCall, out |-> NoResult]

\* DebateState before the first round, and the debate tool not yet called.
initialState == [rounds |-> <<>>, previousArguments |-> <<>>]

\* numRoundsX2 is twice numRounds: the rounds argument is any number from 1
\* to MAX_DEBATE_ROUNDS, and the halves stand for the fractional ones.
IdleDebate ==
    [status |-> "idle", affirmativeModel |-> <<>>, negativeModel |-> <<>>,
     numRoundsX2 |-> 0, index |-> 0, round |-> 0, state |-> initialState,
     affirmativeText |-> "", updatedArgs |-> <<>>, issued |-> <<>>,
     out |-> NoResult]

\* The critique tool not yet called.
IdleCritique == [status |-> "idle", criticModel |-> <<>>, out |-> NoResult]

\* The challenge tool not yet called.
IdleChallenge == [status |-> "idle", challengers |-> <<>>, out |-> NoResult]

\* An Option of functype: None, or Some(v).
None == [some |-> FALSE]
Some(v) == [some |-> TRUE, value |-> v]

\* A string of process.env is the sequence of its characters.
Decimal(n) == <<"0", "1", "2", "3", "4", "5", "6", "7", "8", "9">>[n + 1]

\* The environment under which getMaxConcurrent() gives p.
EnvFor(p) == [MAX_CONCURRENT |-> Some(<<Decimal(p)>>), DEFAULT_MODELS |-> None]

\* ------------------------------------------------------------- Semaphore
\* The gate's fields as one value.
Semaphore(p, q) == [permits |-> p, waitQueue |-> q]

\* acquire(): a free permit is taken at once, otherwise the caller's resolve
\* is pushed on the wait queue.  granted tells which of the two happened.
acquire(sem, c) ==
    IF sem.permits > 0
    THEN [permits |-> sem.permits - 1, waitQueue |-> sem.waitQueue, granted |-> TRUE]
    ELSE [permits |-> sem.permits, waitQueue |-> Append(sem.waitQueue, c),
          granted |-> FALSE]

\* A release that takes the newest waiter instead of the oldest.
releaseNewest(sem) ==
    IF sem.waitQueue # <<>>
    THEN [permits |-> sem.permits,
          waitQueue |-> SubSeq(sem.waitQueue, 1, Len(sem.waitQueue) - 1),
          next |-> sem.waitQueue[Len(sem.waitQueue)]]
    ELSE [permits |-> sem.permits + 1, waitQueue |-> sem.waitQueue, next |-> NoCall]

\* A release that wakes the oldest waiter and also returns the permit.
releaseAndCount(sem) ==
    IF sem.waitQueue # <<>>
    THEN [permits |-> sem.permits + 1, waitQueue |-> Tail(sem.waitQueue),
          next |-> Head(sem.waitQueue)]
    ELSE [permits |-> sem.permits + 1, waitQueue |-> sem.waitQueue, next |-> NoCall]

\* A release that wakes the oldest waiter and leaves it in the queue.
releaseKeepQueued(sem) ==
    IF sem.waitQueue # <<>>
    THEN [permits |-> sem.permits, waitQueue |-> sem.waitQueue,
          next |-> Head(sem.waitQueue)]
    ELSE [permits |-> sem.permits + 1, waitQueue |-> sem.waitQueue, next |-> NoCall]

\* A release that puts the permit back on the counter and wakes nobody.
releaseNoWake(sem) ==
    [permits |-> sem.permits + 1, waitQueue |-> sem.waitQueue, next |-> NoCall]

\* release(): waitQueue.shift(); the shifted resolve is called (next), or,
\* with nobody waiting, the permit goes back to the counter.
release(sem) ==
    IF sem.waitQueue # <<>>
    THEN [permits |-> sem.permits, waitQueue |-> Tail(sem.waitQueue),
          next |-> Head(sem.waitQueue)]
    ELSE [permits |-> sem.permits + 1, waitQueue |-> sem.waitQueue, next |-> NoCall]

\* withPermit without the finally: the permit is kept when fn throws.
withPermitExitNoFinally(sem, how) ==
    IF how = "throw"
    THEN [permits |-> sem.permits, waitQueue |-> sem.waitQueue, next |-> NoCall,
          released |-> 0]
    ELSE release(sem) @@ [released |-> 1]

\* withPermit's try/finally: release() runs on return and on throw alike.
withPermitExit(sem, how) == release(sem) @@ [released |-> 1]

\* The calls after call c entered the gate with outcome a of acquire.
Entered(cs, c, kind, a) ==
    [cs EXCEPT ![c] = [IdleCall EXCEPT
                          !.pc = IF a.granted THEN "granted" ELSE "waiting",
                          !.kind = kind,
                          !.via = IF a.granted THEN "direct" ELSE "none",
                          !.acquired = 1]]

\* The calls after call c left the guarded section with outcome r of release:
\* the woken waiter, if any, holds the permit from now on.
Left(cs, c, how, r) ==
    [d \in DOMAIN cs |->
        IF d = c THEN [cs[d] EXCEPT !.pc = "done", !.exit = how,
                                    !.released = @ + r.released]
        ELSE IF d = r.next THEN [cs[d] EXCEPT !.pc = "granted", !.via = "handoff"]
        ELSE cs[d]]

\* ------------------------------------------------- direct users of the gate
\* task(id, delay) of the Semaphore test: await semaphore.acquire().
AcquireCall(c) ==
    /\ calls[c].pc = "idle"
    /\ LET a == acquire(Semaphore(permits, waitQueue), c) IN
        /\ permits' = a.permits
        /\ waitQueue' = a.waitQueue
        /\ calls' = Entered(calls, c, "pair", a)
    /\ arrivals' = Append(arrivals, c)
    /\ UNCHANGED <<maxConcurrent, configured, providers, fan, debate, critique, challenge, env, defaultModels>>

\* semaphore.withPermit(fn) up to its await this.acquire().
WithPermitCall(c) ==
    /\ calls[c].pc = "idle"
    /\ LET a == acquire(Semaphore(permits, waitQueue), c) IN
        /\ permits' = a.permits
        /\ waitQueue' = a.waitQueue
        /\ calls' = Entered(calls, c, "withPermit", a)
    /\ arrivals' = Append(arrivals, c)
    /\ UNCHANGED <<maxConcurrent, configured, providers, fan, debate, critique, challenge, env, defaultModels>>

\* The continuation of await this.acquire(): the guarded code starts.
Resume(c) ==
    /\ calls[c].pc = "granted"
    /\ calls' = [calls EXCEPT ![c].pc = "running"]
    /\ UNCHANGED <<permits, waitQueue, maxConcurrent, arrivals, configured, providers,
                   fan, debate, critique, challenge, env, defaultModels>>

\* The test's task after its timer: semaphore.release().
ReleaseCall(c) ==
    /\ calls[c].pc = "running"
    /\ calls[c].kind = "pair"
    /\ LET r == release(Semaphore(permits, waitQueue)) @@ [released |-> 1] IN
        /\ permits' = r.permits
        /\ waitQueue' = r.waitQueue
        /\ calls' = Left(calls, c, "return", r)
    /\ arrivals' = Without(arrivals, c)
    /\ UNCHANGED <<maxConcurrent, configured, providers, fan, debate, critique, challenge, env, defaultModels>>

\* fn() of withPermit settles, by return or by throw.
WithPermitExit(c, how) ==
    /\ calls[c].pc = "running"
    /\ calls[c].kind = "withPermit"
    /\ LET r == withPermitExit(Semaphore(permits, waitQueue), how) IN
        /\ permits' = r.permits
        /\ waitQueue' = r.waitQueue
        /\ calls' = Left(calls, c, how, r)
    /\ arrivals' = Without(arrivals, c)
    /\ UNCHANGED <<maxConcurrent, configured, providers, fan, debate, critique, challenge, env, defaultModels>>

\* new Semaphore(permits) with no call made yet.
SemInit ==
    /\ maxConcurrent \in 1..MaxPermits
    /\ permits = maxConcurrent
    /\ waitQueue = <<>>
    /\ calls = [c \in TaskIds |-> IdleCall]
    /\ arrivals = <<>>
    /\ configured = {}
    /\ providers = {}
    /\ fan = IdleFan
    /\ debate = IdleDebate
    /\ critique = IdleCritique
    /\ challenge = IdleChallenge
    /\ env = EnvFor(maxConcurrent)
    /\ defaultModels = NoResult

SemNext ==
    \E c \in TaskIds :
        \/ AcquireCall(c)
        \/ WithPermitCall(c)
        \/ Resume(c)
        \/ ReleaseCall(c)
        \/ \E how \in {"return", "throw"} : WithPermitExit(c, how)

SemSpec == SemInit /\ [][SemNext]_vars

\* ------------------------------------------------------ model resolution
\* PROVIDER_PREFIXES, in key order.  A model string is the sequence of its
\* "/"-separated segments, so the prefix "openai/" is a first segment "openai"
\* followed by at least one more segment.
PROVIDER_PREFIXES == <<"openrouter", "openai", "anthropic", "google", "mistral">>

\* The name of the API key variable of each provider.
ENV_KEYS ==
    [openrouter |-> "OPENROUTER_API_KEY", openai |-> "OPENAI_API_KEY",
     anthropic |-> "ANTHROPIC_API_KEY", google |-> "GOOGLE_GENERATIVE_AI_API_KEY",
     mistral |-> "MISTRAL_API_KEY"]

\* The vendor segment a direct provider's models have under OpenRouter.
openRouterVendor ==
    [openai |-> "openai", anthropic |-> "anthropic", google |-> "google",
     mistral |-> "mistralai"]

\* The product name the missing-key message starts with.
providerTitle ==
    [openrouter |-> "OpenRouter", openai |-> "OpenAI", anthropic |-> "Anthropic",
     google |-> "Google", mistral |-> "Mistral"]

\* A message is the sequence of its parts: literal text, a model string, the
\* name of an environment variable, a number.
Lit(t) == [s |-> t]
Id(ms) == [id |-> ms]
Env(v) == [env |-> v]
Num(n) == [n |-> n]

\* isProviderConfigured(p): the provider's API key is present.
isProviderConfigured(p) == p \in configured

\* modelString.startsWith(prefix)
startsWith(ms, p) == Len(ms) >= 2 /\ ms[1] = p

\* A parse that looks for a provider prefix again behind openrouter/.
parseModelStringNested(ms) ==
    LET inner == IF startsWith(ms, "openrouter") THEN Tail(ms) ELSE ms
        others == {i \in 2..Len(PROVIDER_PREFIXES) : startsWith(inner, PROVIDER_PREFIXES[i])}
        first == CHOOSE i \in others : \A j \in others : i <= j
    IN  IF others # {}
        THEN [ok |-> TRUE, provider |-> PROVIDER_PREFIXES[first], model |-> Tail(inner)]
        ELSE IF startsWith(ms, "openrouter")
        THEN [ok |-> TRUE, provider |-> "openrouter", model |-> Tail(ms)]
        ELSE IF isProviderConfigured("openrouter")
        THEN [ok |-> TRUE, provider |-> "openrouter", model |-> ms]
        ELSE [ok |-> FALSE,
              error |-> <<Lit("Cannot determine provider for model: "), Id(ms),
                          Lit(". Use a provider prefix (e.g., openai/gpt-4o).")>>]

\* A parse whose error for an unprefixed string does not quote the string.
parseModelStringAnonymous(ms) ==
    LET others == {i \in 2..Len(PROVIDER_PREFIXES) : startsWith(ms, PROVIDER_PREFIXES[i])}
        first == CHOOSE i \in others : \A j \in others : i <= j
    IN  IF startsWith(ms, "openrouter")
        THEN [ok |-> TRUE, provider |-> "openrouter", model |-> Tail(ms)]
        ELSE IF others # {}
        THEN [ok |-> TRUE, provider |-> PROVIDER_PREFIXES[first], model |-> Tail(ms)]
        ELSE IF isProviderConfigured("openrouter")
        THEN [ok |-> TRUE, provider |-> "openrouter", model |-> ms]
        ELSE [ok |-> FALSE,
              error |-> <<Lit("Cannot determine provider for model. Use a provider prefix (e.g., openai/gpt-4o).")>>]

\* parseModelString: openrouter/ first, then the other prefixes in order, then
\* the openrouter default, else the error naming the string.
parseModelString(ms) ==
    LET others == {i \in 2..Len(PROVIDER_PREFIXES) : startsWith(ms, PROVIDER_PREFIXES[i])}
        first == CHOOSE i \in others : \A j \in others : i <= j
    IN  IF startsWith(ms, "openrouter")
        THEN [ok |-> TRUE, provider |-> "openrouter", model |-> Tail(ms)]
        ELSE IF others # {}
        THEN [ok |-> TRUE, provider |-> PROVIDER_PREFIXES[first], model |-> Tail(ms)]
        ELSE IF isProviderConfigured("openrouter")
        THEN [ok |-> TRUE, provider |-> "openrouter", model |-> ms]
        ELSE [ok |-> FALSE,
              error |-> <<Lit("Cannot determine provider for model: "), Id(ms),
                          Lit(". Use a provider prefix (e.g., openai/gpt-4o).")>>]

\* The toEither message of each case of resolveModel.
notConfigured(p) ==
    IF p = "openrouter"
    THEN <<Lit("OpenRouter API key not configured. Set "), Env(ENV_KEYS[p]),
           Lit(" environment variable.")>>
    ELSE <<Lit(providerTitle[p]), Lit(" API key not configured. Set "),
           Env(ENV_KEYS[p]), Lit(" or "), Env(ENV_KEYS["openrouter"]), Lit(".")>>

\* A resolution whose fallback takes the OpenRouter instance from the cache
\* without creating it: the fallback works only after an openrouter/ model
\* has been resolved.
resolveModelCachedFallback(ms, cache) ==
    LET parsed == parseModelString(ms) IN
    IF ~parsed.ok
    THEN [ok |-> FALSE, error |-> parsed.error, providers |-> cache, created |-> {}]
    ELSE IF isProviderConfigured(parsed.provider)
    THEN [ok |-> TRUE,
          model |-> [provider |-> parsed.provider, modelId |-> parsed.model],
          providers |-> cache \cup {parsed.provider},
          created |-> {parsed.provider} \ cache]
    ELSE IF parsed.provider # "openrouter" /\ isProviderConfigured("openrouter")
            /\ "openrouter" \in cache
    THEN [ok |-> TRUE,
          model |-> [provider |-> "openrouter",
                     modelId |-> <<openRouterVendor[parsed.provider]>> \o parsed.model],
          providers |-> cache, created |-> {}]
    ELSE [ok |-> FALSE, error |-> notConfigured(parsed.provider), providers |-> cache,
          created |-> {}]

\* A resolution that tries OpenRouter before the direct provider.
resolveModelRouterFirst(ms, cache) ==
    LET parsed == parseModelString(ms) IN
    IF ~parsed.ok
    THEN [ok |-> FALSE, error |-> parsed.error, providers |-> cache, created |-> {}]
    ELSE IF parsed.provider # "openrouter" /\ isProviderConfigured("openrouter")
    THEN [ok |-> TRUE,
          model |-> [provider |-> "openrouter",
                     modelId |-> <<openRouterVendor[parsed.provider]>> \o parsed.model],
          providers |-> cache \cup {"openrouter"},
          created |-> {"openrouter"} \ cache]
    ELSE IF isProviderConfigured(parsed.provider)
    THEN [ok |-> TRUE,
          model |-> [provider |-> parsed.provider, modelId |-> parsed.model],
          providers |-> cache \cup {parsed.provider},
          created |-> {parsed.provider} \ cache]
    ELSE [ok |-> FALSE, error |-> notConfigured(parsed.provider), providers |-> cache,
          created |-> {}]

\* A resolution whose get*Provider calls create the instance every time,
\* whatever the cache holds.
resolveModelAlwaysCreates(ms, cache) ==
    LET parsed == parseModelString(ms) IN
    IF ~parsed.ok
    THEN [ok |-> FALSE, error |-> parsed.error, providers |-> cache, created |-> {}]
    ELSE IF isProviderConfigured(parsed.provider)
    THEN [ok |-> TRUE,
          model |-> [provider |-> parsed.provider, modelId |-> parsed.model],
          providers |-> cache \cup {parsed.provider},
          created |-> {parsed.provider}]
    ELSE IF parsed.provider # "openrouter" /\ isProviderConfigured("openrouter")
    THEN [ok |-> TRUE,
          model |-> [provider |-> "openrouter",
                     modelId |-> <<openRouterVendor[parsed.provider]>> \o parsed.model],
          providers |-> cache \cup {"openrouter"},
          created |-> {"openrouter"}]
    ELSE [ok |-> FALSE, error |-> notConfigured(parsed.provider), providers |-> cache,
          created |-> {}]

\* resolveModel with the provider cache cache: the language model bound (which
\* provider instance, which model path), or the error; the cache after the
\* get*Provider calls it made, and the instances those calls created.
resolveModel(ms, cache) ==
    LET parsed == parseModelString(ms) IN
    IF ~parsed.ok
    THEN [ok |-> FALSE, error |-> parsed.error, providers |-> cache, created |-> {}]
    ELSE IF isProviderConfigured(parsed.provider)
    THEN [ok |-> TRUE,
          model |-> [provider |-> parsed.provider, modelId |-> parsed.model],
          providers |-> cache \cup {parsed.provider},
          created |-> {parsed.provider} \ cache]
    ELSE IF parsed.provider # "openrouter" /\ isProviderConfigured("openrouter")
    THEN [ok |-> TRUE,
          model |-> [provider |-> "openrouter",
                     modelId |-> <<openRouterVendor[parsed.provider]>> \o parsed.model],
          providers |-> cache \cup {"openrouter"},
          created |-> {"openrouter"} \ cache]
    ELSE [ok |-> FALSE, error |-> notConfigured(parsed.provider), providers |-> cache,
          created |-> {}]

\* ALL_PROVIDERS
ALL_PROVIDERS == {"openrouter", "openai", "anthropic", "google", "mistral"}

\* The identifiers resolved on their own: one per prefix, openrouter/ with a
\* nested vendor path and without, and three with no provider prefix (a bare
\* name, a provider name without its slash, an unknown vendor path).
ResolveIds ==
    {<<"openai", "gpt-4o">>, <<"anthropic", "claude-sonnet-4">>,
     <<"google", "gemini-2.0-flash">>, <<"mistral", "mistral-large">>,
     <<"openrouter", "openai", "gpt-4o">>, <<"openrouter", "auto">>,
     <<"gpt-4o">>, <<"openai">>, <<"meta-llama", "llama-3">>}

\* resolveModel(ms) called on its own, as the c-th call: resolveModel is
\* synchronous, so the calls come one after the other.  The call's record
\* keeps what it returned and, as history, what parseModelString gave, the
\* provider cache it found and the instances it created.
ResolveModel(c, ms) ==
    /\ calls[c].pc = "idle"
    /\ \A b \in 1..(c - 1) : calls[b].pc = "done"
    /\ LET r == resolveModel(ms, providers)
           either == IF r.ok THEN [ok |-> TRUE, model |-> r.model]
                     ELSE [ok |-> FALSE, error |-> r.error]
       IN
        /\ calls' = [calls EXCEPT ![c] =
                        [IdleCall EXCEPT !.pc = "done", !.kind = "resolve", !.model = ms,
                                         !.result = either @@ [parsed |-> parseModelString(ms),
                                                               before |-> providers,
                                                               created |-> r.created]]]
        /\ providers' = r.providers
    /\ UNCHANGED <<permits, waitQueue, maxConcurrent, arrivals, configured, fan, debate, critique, challenge, env, defaultModels>>

ResolveInit ==
    /\ maxConcurrent = 1
    /\ permits = maxConcurrent
    /\ waitQueue = <<>>
    /\ calls = [c \in TaskIds |-> IdleCall]
    /\ arrivals = <<>>
    /\ configured \in SUBSET ALL_PROVIDERS
    /\ providers = {}
    /\ fan = IdleFan
    /\ debate = IdleDebate
    /\ critique = IdleCritique
    /\ challenge = IdleChallenge
    /\ env = EnvFor(maxConcurrent)
    /\ defaultModels = NoResult

ResolveNext == \E c \in TaskIds : \E ms \in ResolveIds : ResolveModel(c, ms)

ResolveSpec == ResolveInit /\ [][ResolveNext]_vars

\* ------------------------------------------------------------ queryModel
\* What generateText can do once called: resolve with a text, or reject, with
\* an Error (the abort of AbortSignal.timeout, an API error) or another value.
Texts == {"alpha", "beta"}

GenerateTextOutcomes ==
    [text : Texts]
        \cup {[thrown |-> [isError |-> TRUE, message |-> "The operation was aborted due to timeout"]],
              [thrown |-> [isError |-> FALSE, value |-> "fetch failed"]]}

\* Date.now() - startTime
Elapsed == "elapsed"

\* error instanceof Error ? error.message : String(error)
errorText(e) == IF e.isError THEN <<Lit(e.message)>> ELSE <<Lit(e.value)>>

isModelResponse(r) == "text" \in DOMAIN r
isModelError(r) == "error" \in DOMAIN r

\* A queryModel that lets a thrown non-Error value escape.
queryResultRethrow(ms, o) ==
    IF "text" \in DOMAIN o
    THEN [model |-> ms, text |-> o.text, latencyMs |-> Elapsed]
    ELSE IF o.thrown.isError
    THEN [model |-> ms, error |-> errorText(o.thrown)]
    ELSE [rejected |-> errorText(o.thrown)]

\* A queryModel whose error record keeps an (empty) text field.
queryResultBothFields(ms, o) ==
    IF "text" \in DOMAIN o
    THEN [model |-> ms, text |-> o.text, latencyMs |-> Elapsed]
    ELSE [model |-> ms, text |-> "", error |-> errorText(o.thrown)]

\* A queryModel that reports the provider's model id (the identifier without
\* its prefixes) instead of the identifier it was called with.
queryResultProviderModelId(ms, o) ==
    IF "text" \in DOMAIN o
    THEN [model |-> SubSeq(ms, Len(ms), Len(ms)), text |-> o.text, latencyMs |-> Elapsed]
    ELSE [model |-> SubSeq(ms, Len(ms), Len(ms)), error |-> errorText(o.thrown)]

\* tryCatchAsync(...) and result.fold of queryModel: what the call returns for
\* outcome o of the gated generateText.
queryResult(ms, o) ==
    IF "text" \in DOMAIN o
    THEN [model |-> ms, text |-> o.text, latencyMs |-> Elapsed]
    ELSE [model |-> ms, error |-> errorText(o.thrown)]

\* The part of the state a starting query touches.
GateState ==
    [permits |-> permits, waitQueue |-> waitQueue, calls |-> calls,
     providers |-> providers, arrivals |-> arrivals]

\* A queryModel that calls generateText without withRateLimit: the call runs
\* whatever the gate holds.
queryModelStartUngated(st, c, ms) ==
    LET r == resolveModel(ms, st.providers) IN
    IF ~r.ok
    THEN [st EXCEPT !.calls[c] = [IdleCall EXCEPT !.pc = "done", !.kind = "query",
                                      !.model = ms,
                                      !.result = [model |-> ms, error |-> r.error]]]
    ELSE [permits |-> st.permits, waitQueue |-> st.waitQueue,
          calls |-> [Entered(st.calls, c, "query", [granted |-> TRUE])
                        EXCEPT ![c].model = ms],
          providers |-> r.providers,
          arrivals |-> Append(st.arrivals, c)]

\* A queryModel that enters the gate before it resolves the model, and
\* returns the resolution Failure from inside.
queryModelStartGateFirst(st, c, ms) ==
    LET r == resolveModel(ms, st.providers)
        a == acquire(Semaphore(st.permits, st.waitQueue), c)
    IN
    IF ~r.ok
    THEN [st EXCEPT !.permits = a.permits, !.waitQueue = a.waitQueue,
                    !.calls[c] = [IdleCall EXCEPT !.pc = "done", !.kind = "query",
                                      !.model = ms,
                                      !.result = [model |-> ms, error |-> r.error]]]
    ELSE [permits |-> a.permits, waitQueue |-> a.waitQueue,
          calls |-> [Entered(st.calls, c, "query", a) EXCEPT ![c].model = ms],
          providers |-> r.providers,
          arrivals |-> Append(st.arrivals, c)]

\* queryModel(ms) in call slot c up to its first await: resolution, and then
\* either the Failure at once or withRateLimit's acquire.
queryModelStart(st, c, ms) ==
    LET r == resolveModel(ms, st.providers) IN
    IF ~r.ok
    THEN [st EXCEPT !.calls[c] = [IdleCall EXCEPT !.pc = "done", !.kind = "query",
                                      !.model = ms,
                                      !.result = [model |-> ms, error |-> r.error]]]
    ELSE LET a == acquire(Semaphore(st.permits, st.waitQueue), c) IN
         [permits |-> a.permits, waitQueue |-> a.waitQueue,
          calls |-> [Entered(st.calls, c, "query", a) EXCEPT ![c].model = ms],
          providers |-> r.providers,
          arrivals |-> Append(st.arrivals, c)]

\* A queryModel whose timeout runs from the call on and is raced against the
\* wait for a permit: a queued query can end with the abort error, and it
\* then leaves the queue.
GenerateTextSettlesWhileQueued(c, o) ==
    /\ calls[c].pc \in {"running", "waiting"}
    /\ calls[c].kind = "query"
    /\ IF calls[c].pc = "waiting"
       THEN /\ "thrown" \in DOMAIN o
            /\ permits' = permits
            /\ waitQueue' = Without(waitQueue, c)
            /\ calls' = [calls EXCEPT ![c].pc = "done", ![c].exit = "throw",
                                      ![c].result = queryResult(calls[c].model, o)]
       ELSE LET how == IF "text" \in DOMAIN o THEN "return" ELSE "throw"
                r == withPermitExit(Semaphore(permits, waitQueue), how)
            IN
             /\ permits' = r.permits
             /\ waitQueue' = r.waitQueue
             /\ calls' = [Left(calls, c, how, r) EXCEPT
                             ![c].result = queryResult(calls[c].model, o)]
    /\ arrivals' = Without(arrivals, c)
    /\ fan' = IF c \in 1..Len(fan.models) /\ fan.status = "pending" /\ fan.first = NoCall
              THEN [fan EXCEPT !.first = c] ELSE fan
    /\ UNCHANGED <<maxConcurrent, configured, providers, debate, critique, challenge, env, defaultModels>>

\* The gated generateText of call c settles with outcome o: withPermit's
\* finally releases, and queryModel returns its record.
GenerateTextSettles(c, o) ==
    /\ calls[c].pc = "running"
    /\ calls[c].kind = "query"
    /\ LET how == IF "text" \in DOMAIN o THEN "return" ELSE "throw"
           r == withPermitExit(Semaphore(permits, waitQueue), how)
       IN
        /\ permits' = r.permits
        /\ waitQueue' = r.waitQueue
        /\ calls' = [Left(calls, c, how, r) EXCEPT
                        ![c].result = queryResult(calls[c].model, o)]
    /\ arrivals' = Without(arrivals, c)
    /\ fan' = IF c \in 1..Len(fan.models) /\ fan.status = "pending" /\ fan.first = NoCall
              THEN [fan EXCEPT !.first = c] ELSE fan
    /\ UNCHANGED <<maxConcurrent, configured, providers, debate, critique, challenge, env, defaultModels>>

\* ----------------------------------------------------------- queryModels
RECURSIVE queryModelsStart(_, _, _)
\* models.toArray().map((model) => queryModel(model, ...)): the calls start
\* one after the other, in input order, each up to its first await.
queryModelsStart(st, models, i) ==
    IF i > Len(models) THEN st
    ELSE queryModelsStart(queryModelStart(st, i, models[i]), models, i + 1)

\* A wait that ends with the first query that settles with an error.
PromiseAllEarlyExit(cs, n) ==
    IF \E i \in 1..n : "rejected" \in DOMAIN cs[i].result THEN "rejected"
    ELSE IF \E i \in 1..n : cs[i].pc = "done" /\ isModelError(cs[i].result)
    THEN "fulfilled"
    ELSE IF \A i \in 1..n : cs[i].pc = "done" THEN "fulfilled"
    ELSE "pending"

\* Promise.all over the calls 1..n: rejected as soon as one is, fulfilled
\* when all are.
PromiseAll(cs, n) ==
    IF \E i \in 1..n : "rejected" \in DOMAIN cs[i].result THEN "rejected"
    ELSE IF \A i \in 1..n : cs[i].pc = "done" THEN "fulfilled"
    ELSE "pending"

\* A partition that keeps one entry per model identifier.
partitionByModel(results) ==
    LET firstOf(i) == \A j \in 1..(i - 1) : results[j].model # results[i].model
        idx == {i \in 1..Len(results) : firstOf(i)}
        keep == SelectSeq([i \in 1..Len(results) |-> [i |-> i, r |-> results[i]]],
                          LAMBDA e : e.i \in idx)
        kept == [k \in 1..Len(keep) |-> keep[k].r]
    IN [responses |-> SelectSeq(kept, isModelResponse),
        errors |-> SelectSeq(kept, isModelError)]

\* results.filter("text" in r) and results.filter("error" in r)
partition(results) ==
    [responses |-> SelectSeq(results, isModelResponse),
     errors |-> SelectSeq(results, isModelError)]

\* Results gathered as the queries settle: the one that settled first comes
\* first.
settledResultsFirstSettledFirst(cs, n) ==
    LET done == SelectSeq([i \in 1..n |-> i], LAMBDA i : cs[i].pc = "done")
        order == IF fan.first \in Range(done)
                 THEN <<fan.first>> \o Without(done, fan.first)
                 ELSE done
    IN [k \in 1..Len(order) |-> cs[order[k]].result]

\* The results Promise.all hands over: one per call that has settled, in
\* input order.
settledResults(cs, n) ==
    LET done == SelectSeq([i \in 1..n |-> i], LAMBDA i : cs[i].pc = "done") IN
    [k \in 1..Len(done) |-> cs[done[k]].result]

\* council_query's CouncilQueryResult around queryModels' return value.
councilResult(p) ==
    [responses |-> p.responses, errors |-> p.errors,
     metadata |-> [totalLatencyMs |-> Elapsed,
                   successCount |-> Len(p.responses),
                   failedModels |-> [i \in 1..Len(p.errors) |-> p.errors[i].model]]]

\* council_query.execute up to the await of queryModels.
CouncilQuery(models) ==
    /\ fan.status = "idle"
    /\ LET st == queryModelsStart(GateState, models, 1) IN
        /\ permits' = st.permits
        /\ waitQueue' = st.waitQueue
        /\ calls' = st.calls
        /\ providers' = st.providers
        /\ arrivals' = st.arrivals
    /\ fan' = [fan EXCEPT !.status = "pending", !.models = models]
    /\ UNCHANGED <<maxConcurrent, configured, debate, critique, challenge, env, defaultModels>>

\* The await of queryModels ends: Promise.all has settled.
QueryModelsSettles ==
    /\ fan.status = "pending"
    /\ LET n == Len(fan.models)
           all == PromiseAll(calls, n)
       IN
        /\ all # "pending"
        /\ fan' = IF all = "rejected"
                  THEN [fan EXCEPT !.status = "rejected"]
                  ELSE [fan EXCEPT !.status = "returned",
                            !.out = councilResult(partition(settledResults(calls, n)))]
    /\ UNCHANGED <<permits, waitQueue, maxConcurrent, calls, arrivals, configured,
                   providers, debate, critique, challenge, env, defaultModels>>

\* The model identifiers and the environments that are explored.
ModelIds ==
    {<<"openai", "gpt-4o">>, <<"openrouter", "openai", "gpt-4o">>, <<"gpt-4o">>}

ConfiguredSets == {{}, {"openai"}, {"openai", "openrouter"}}

RECURSIVE SeqsUpTo(_, _)
SeqsUpTo(S, n) ==
    IF n = 0 THEN {<<>>}
    ELSE LET shorter == SeqsUpTo(S, n - 1) IN
         shorter \cup {Append(q, x) : q \in shorter, x \in S}

FanInit ==
    /\ maxConcurrent \in 1..MaxPermits
    /\ permits = maxConcurrent
    /\ waitQueue = <<>>
    /\ calls = [c \in FanCalls |-> IdleCall]
    /\ arrivals = <<>>
    /\ configured \in ConfiguredSets
    /\ providers = {}
    /\ fan = IdleFan
    /\ debate = IdleDebate
    /\ critique = IdleCritique
    /\ challenge = IdleChallenge
    /\ env = EnvFor(maxConcurrent)
    /\ defaultModels = NoResult

FanNext ==
    \/ \E models \in SeqsUpTo(ModelIds, MaxModels) : CouncilQuery(models)
    \/ \E c \in FanCalls : Resume(c)
    \/ \E c \in FanCalls : \E o \in GenerateTextOutcomes : GenerateTextSettles(c, o)
    \/ QueryModelsSettles

FanSpec == FanInit /\ [][FanNext]_vars

\* ------------------------------------------------------------ debate tool
MAX_DEBATE_ROUNDS == 5
DEFAULT_DEBATE_ROUNDS == 2

\* The two queryModel calls of a debate round.
AffCall == MaxModels + 1
NegCall == MaxModels + 2
DebateCalls == {AffCall, NegCall}

\* args.rounds omitted.
NoRounds == 0

\* z.number().min(1).max(MAX_DEBATE_ROUNDS).optional(), as twice the number.
acceptsRounds(x2) == x2 = NoRounds \/ (2 * 1 <= x2 /\ x2 <= 2 * MAX_DEBATE_ROUNDS)

\* List(Array.from({ length: numRounds }, (_, i) => i)): rounds from 0.
roundNumbersFromZero(x2) == [i \in 1..(x2 \div 2) |-> i - 1]

\* List(Array.from({ length: numRounds }, (_, i) => i + 1)): the length of an
\* array is the integer part of the number.
roundNumbers(x2) == [i \in 1..(x2 \div 2) |-> i]

\* The affirmative prompt of a round: round number, round count, and from
\* round 2 on the previous arguments.
affirmativePrompt(d, round) ==
    [arguing |-> "FOR", round |-> round, of |-> d.numRoundsX2,
     previous |-> IF round = 1 THEN <<>> ELSE d.state.previousArguments]

\* A negative prompt built from the arguments of the rounds before, without
\* the affirmative turn just added.
negativePromptStale(d, round, updatedArgs) ==
    [arguing |-> "AGAINST", round |-> round, of |-> d.numRoundsX2,
     previous |-> d.state.previousArguments]

\* The negative prompt of a round, with the arguments updated by the
\* affirmative turn.
negativePrompt(d, round, updatedArgs) ==
    [arguing |-> "AGAINST", round |-> round, of |-> d.numRoundsX2,
     previous |-> updatedArgs]

\* `Round ${round} - Affirmative (${affirmativeModel}):\n${text}`
affirmativeArg(d, text) ==
    [round |-> d.round, side |-> "Affirmative", model |-> d.affirmativeModel,
     text |-> text]

\* `Round ${round} - Negative (${negativeModel}):\n${text}`
negativeArg(d, text) ==
    [round |-> d.round, side |-> "Negative", model |-> d.negativeModel, text |-> text]

\* A rejection that hands the rounds completed so far to the caller.
failedWithRounds(d, side, error) ==
    [rounds |-> d.state.rounds, error |-> <<Lit(side), Lit(" model failed: ")>> \o error]

\* new Error(`Affirmative model failed: ${error}`), new Error(`Negative ...`)
failed(d, side, error) ==
    [error |-> <<Lit(side), Lit(" model failed: ")>> \o error]

\* A DebateResult that counts one exchange per round.
debateResultOnePerRound(d, finalState) ==
    [affirmativeModel |-> d.affirmativeModel, negativeModel |-> d.negativeModel,
     rounds |-> finalState.rounds,
     metadata |-> [totalExchanges |-> d.numRoundsX2 \div 2, totalLatencyMs |-> Elapsed]]

\* The DebateResult of execute: totalExchanges is numRounds * 2.
debateResult(d, finalState) ==
    [affirmativeModel |-> d.affirmativeModel, negativeModel |-> d.negativeModel,
     rounds |-> finalState.rounds,
     metadata |-> [totalExchanges |-> d.numRoundsX2, totalLatencyMs |-> Elapsed]]

\* An executeRound that issues the queries of both sides at once and awaits
\* them together.
executeRoundBeginsBothSides(d, k) ==
    LET round == roundNumbers(d.numRoundsX2)[k]
        prompt == affirmativePrompt(d, round)
    IN [debate |-> [d EXCEPT !.status = "affirmative", !.index = k, !.round = round,
                             !.issued = Append(@, [model |-> d.affirmativeModel,
                                                   prompt |-> prompt])],
        gate |-> queryModelStart(queryModelStart(GateState, AffCall, d.affirmativeModel),
                                 NegCall, d.negativeModel)]

\* The debate and the gate after executeRound has been entered for the round
\* at position k and has issued its affirmative query.
executeRoundBegins(d, k) ==
    LET round == roundNumbers(d.numRoundsX2)[k]
        prompt == affirmativePrompt(d, round)
    IN [debate |-> [d EXCEPT !.status = "affirmative", !.index = k, !.round = round,
                             !.issued = Append(@, [model |-> d.affirmativeModel,
                                                   prompt |-> prompt])],
        gate |-> queryModelStart(GateState, AffCall, d.affirmativeModel)]

\* debate.execute: the arguments are taken and the reduce enters round 1.
Debate(aff, neg, rounds) ==
    /\ debate.status = "idle"
    /\ acceptsRounds(rounds)
    /\ LET x2 == IF rounds = NoRounds THEN 2 * DEFAULT_DEBATE_ROUNDS ELSE rounds
           d == [debate EXCEPT !.affirmativeModel = aff, !.negativeModel = neg,
                               !.numRoundsX2 = x2]
           b == executeRoundBegins(d, 1)
       IN
        /\ debate' = b.debate
        /\ permits' = b.gate.permits
        /\ waitQueue' = b.gate.waitQueue
        /\ calls' = b.gate.calls
        /\ providers' = b.gate.providers
        /\ arrivals' = b.gate.arrivals
    /\ UNCHANGED <<maxConcurrent, configured, fan, critique, challenge, env, defaultModels>>

\* An executeRound that does not look at the affirmative result: after a
\* failed affirmative turn the negative model is queried all the same.
AffirmativeSettlesUnchecked ==
    /\ debate.status = "affirmative"
    /\ calls[AffCall].pc = "done"
    /\ LET r == calls[AffCall].result
           text == IF isModelResponse(r) THEN r.text ELSE ""
           updatedArgs == debate.state.previousArguments
                              \o <<affirmativeArg(debate, text)>>
           prompt == negativePrompt(debate, debate.round, updatedArgs)
           st == queryModelStart(GateState, NegCall, debate.negativeModel)
       IN
        /\ debate' = [debate EXCEPT !.status = "negative",
                         !.affirmativeText = text,
                         !.updatedArgs = updatedArgs,
                         !.issued = Append(@, [model |-> debate.negativeModel,
                                               prompt |-> prompt])]
        /\ permits' = st.permits
        /\ waitQueue' = st.waitQueue
        /\ calls' = st.calls
        /\ providers' = st.providers
        /\ arrivals' = st.arrivals
    /\ UNCHANGED <<maxConcurrent, configured, fan, critique, challenge, env, defaultModels>>

\* executeRound after await queryModel(affirmativeModel, ...): reject on an
\* error, else issue the negative query.
AffirmativeSettles ==
    /\ debate.status = "affirmative"
    /\ calls[AffCall].pc = "done"
    /\ LET r == calls[AffCall].result IN
       IF "rejected" \in DOMAIN r
       THEN /\ debate' = [debate EXCEPT !.status = "rejected", !.out = [error |-> r.rejected]]
            /\ UNCHANGED <<permits, waitQueue, calls, providers, arrivals>>
       ELSE IF isModelError(r)
       THEN /\ debate' = [debate EXCEPT !.status = "rejected",
                                        !.out = failed(debate, "Affirmative", r.error)]
            /\ UNCHANGED <<permits, waitQueue, calls, providers, arrivals>>
       ELSE LET updatedArgs == debate.state.previousArguments
                                   \o <<affirmativeArg(debate, r.text)>>
                prompt == negativePrompt(debate, debate.round, updatedArgs)
                st == queryModelStart(GateState, NegCall, debate.negativeModel)
            IN
             /\ debate' = [debate EXCEPT !.status = "negative",
                              !.affirmativeText = r.text,
                              !.updatedArgs = updatedArgs,
                              !.issued = Append(@, [model |-> debate.negativeModel,
                                                    prompt |-> prompt])]
             /\ permits' = st.permits
             /\ waitQueue' = st.waitQueue
             /\ calls' = st.calls
             /\ providers' = st.providers
             /\ arrivals' = st.arrivals
    /\ UNCHANGED <<maxConcurrent, configured, fan, critique, challenge, env, defaultModels>>

\* executeRound after await queryModel(negativeModel, ...): reject on an
\* error, else the round is added and the reduce enters the next round or
\* execute builds the DebateResult.
NegativeSettles ==
    /\ debate.status = "negative"
    /\ calls[NegCall].pc = "done"
    /\ LET r == calls[NegCall].result IN
       IF "rejected" \in DOMAIN r
       THEN /\ debate' = [debate EXCEPT !.status = "rejected", !.out = [error |-> r.rejected]]
            /\ UNCHANGED <<permits, waitQueue, calls, providers, arrivals>>
       ELSE IF isModelError(r)
       THEN /\ debate' = [debate EXCEPT !.status = "rejected",
                                        !.out = failed(debate, "Negative", r.error)]
            /\ UNCHANGED <<permits, waitQueue, calls, providers, arrivals>>
       ELSE LET newState ==
                    [rounds |-> Append(debate.state.rounds,
                                       [round |-> debate.round,
                                        affirmative |-> debate.affirmativeText,
                                        negative |-> r.text]),
                     previousArguments |-> debate.updatedArgs
                                               \o <<negativeArg(debate, r.text)>>]
                d == [debate EXCEPT !.state = newState]
            IN
             IF debate.index < Len(roundNumbers(debate.numRoundsX2))
             THEN LET b == executeRoundBegins(d, debate.index + 1) IN
                  /\ debate' = b.debate
                  /\ permits' = b.gate.permits
                  /\ waitQueue' = b.gate.waitQueue
                  /\ calls' = b.gate.calls
                  /\ providers' = b.gate.providers
                  /\ arrivals' = b.gate.arrivals
             ELSE /\ debate' = [d EXCEPT !.status = "returned",
                                         !.out = debateResult(d, newState)]
                  /\ UNCHANGED <<permits, waitQueue, calls, providers, arrivals>>
    /\ UNCHANGED <<maxConcurrent, configured, fan, critique, challenge, env, defaultModels>>

\* The queryModel call of a query_model tool call running beside the debate.
SingleCall == MaxModels + 3

\* query_model.execute up to its await queryModel(args.model, ...).
QueryModelTool(ms) ==
    /\ calls[SingleCall].pc = "idle"
    /\ LET st == queryModelStart(GateState, SingleCall, ms) IN
        /\ permits' = st.permits
        /\ waitQueue' = st.waitQueue
        /\ calls' = st.calls
        /\ providers' = st.providers
        /\ arrivals' = st.arrivals
    /\ UNCHANGED <<maxConcurrent, configured, fan, debate, critique, challenge, env, defaultModels>>

\* The rounds arguments that are explored: omitted, and every whole and
\* half number the tool accepts up to MaxRounds.
RoundsArgs == {NoRounds} \cup {x2 \in 2..(2 * MaxRounds) : acceptsRounds(x2)}

DebateInit ==
    /\ maxConcurrent \in 1..MaxPermits
    /\ permits = maxConcurrent
    /\ waitQueue = <<>>
    /\ calls = [c \in DebateCalls \cup {SingleCall} |-> IdleCall]
    /\ arrivals = <<>>
    /\ configured \in ConfiguredSets
    /\ providers = {}
    /\ fan = IdleFan
    /\ debate = IdleDebate
    /\ critique = IdleCritique
    /\ challenge = IdleChallenge
    /\ env = EnvFor(maxConcurrent)
    /\ defaultModels = NoResult

DebateNext ==
    \/ \E aff, neg \in ModelIds : \E rounds \in RoundsArgs : Debate(aff, neg, rounds)
    \/ \E ms \in ModelIds : QueryModelTool(ms)
    \/ \E c \in DebateCalls \cup {SingleCall} : Resume(c)
    \/ \E c \in DebateCalls \cup {SingleCall} :
          \E o \in GenerateTextOutcomes : GenerateTextSettles(c, o)
    \/ AffirmativeSettles
    \/ NegativeSettles

DebateSpec == DebateInit /\ [][DebateNext]_vars

\* ------------------------------------------------- JSON.parse, extractJson
\* JavaScript values as JSON.parse builds them.
JNull == [type |-> "null"]
Undefined == [type |-> "undefined"]
JNumber(n) == [type |-> "number", value |-> n]
JString(s) == [type |-> "string", value |-> s]
JArray(items) == [type |-> "array", items |-> items]
JObject(fields) == [type |-> "object", fields |-> fields]

\* The challenge entries the explored documents hold.
EntryLogicalMinor ==
    JObject([challengeType |-> JString("logical"), challenge |-> JString("circular"),
             severity |-> JString("minor"), reasoning |-> JString("begs the question")])
EntryFactualSignificant ==
    JObject([challengeType |-> JString("factual"), challenge |-> JString("unsourced"),
             severity |-> JString("significant"), reasoning |-> JString("no evidence")])
EntryNoSeverity ==
    JObject([challengeType |-> JString("logical"), challenge |-> JString("vague"),
             reasoning |-> JString("undefined terms")])
EntryStyle ==
    JObject([challengeType |-> JString("style"), challenge |-> JString("wordy"),
             severity |-> JString("minor"), reasoning |-> JString("too long")])
EntryEmptyReasoning ==
    JObject([challengeType |-> JString("edge_cases"), challenge |-> JString("empty input"),
             severity |-> JString("moderate"), reasoning |-> JString("")])
EntryLogicalCritical ==
    JObject([challengeType |-> JString("logical"), challenge |-> JString("circular"),
             severity |-> JString("critical"), reasoning |-> JString("begs the question")])

\* JSON.parse on the texts that are JSON documents; every other text makes it
\* throw a SyntaxError.
JSONDocuments ==
    "null" :> JNull
    @@ "42" :> JNumber(42)
    @@ "[]" :> JArray(<<>>)
    @@ "{}" :> JObject(<<>>)
    @@ "{\"overallAssessment\": \"solid\"}"
           :> JObject([overallAssessment |-> JString("solid")])
    @@ "{\"strengths\": [\"clear\"], \"weaknesses\": [\"long\"], \"suggestions\": [\"trim\"], \"overallAssessment\": \"good\"}"
           :> JObject([strengths |-> JArray(<<JString("clear")>>),
                       weaknesses |-> JArray(<<JString("long")>>),
                       suggestions |-> JArray(<<JString("trim")>>),
                       overallAssessment |-> JString("good")])
    @@ "{\"strengths\": [\"clear\"], \"weaknesses\": null}"
           :> JObject([strengths |-> JArray(<<JString("clear")>>), weaknesses |-> JNull])
    @@ "{\"challenges\": []}" :> JObject([challenges |-> JArray(<<>>)])
    @@ "[{\"challengeType\": \"logical\", \"challenge\": \"circular\", \"severity\": \"minor\", \"reasoning\": \"begs the question\"}]"
           :> JArray(<<EntryLogicalMinor>>)
    @@ "[{\"challengeType\": \"logical\", \"challenge\": \"vague\", \"reasoning\": \"undefined terms\"}, {\"challengeType\": \"factual\", \"challenge\": \"unsourced\", \"severity\": \"significant\", \"reasoning\": \"no evidence\"}, {\"challengeType\": \"style\", \"challenge\": \"wordy\", \"severity\": \"minor\", \"reasoning\": \"too long\"}, 42, {\"challengeType\": \"edge_cases\", \"challenge\": \"empty input\", \"severity\": \"moderate\", \"reasoning\": \"\"}]"
           :> JArray(<<EntryNoSeverity, EntryFactualSignificant, EntryStyle, JNumber(42),
                       EntryEmptyReasoning>>)
    @@ "[null, {\"challengeType\": \"logical\", \"challenge\": \"circular\", \"severity\": \"minor\", \"reasoning\": \"begs the question\"}]"
           :> JArray(<<JNull, EntryLogicalMinor>>)
    @@ "[{\"challengeType\": \"logical\", \"challenge\": \"circular\", \"severity\": \"critical\", \"reasoning\": \"begs the question\"}]"
           :> JArray(<<EntryLogicalCritical>>)

JSONparse(s) ==
    IF s \in DOMAIN JSONDocuments THEN [value |-> JSONDocuments[s]]
    ELSE [thrown |-> "SyntaxError"]

\* The texts that start with a code fence, and what is left of each once
\* every fence has been removed and the rest trimmed.  A TLA+ string cannot
\* hold a backquote: ''' stands for the three backquotes of a fence.
Fenced ==
    "'''json\nnull\n'''" :> "null"
    @@ "'''json\n{\"overallAssessment\": \"solid\"}\n'''" :> "{\"overallAssessment\": \"solid\"}"
    @@ "'''\n[]\n'''" :> "[]"

\* extractJson: trim, and for a text starting with a fence strip the fences.
extractJson(text) == IF text \in DOMAIN Fenced THEN Fenced[text] ELSE text

\* v.name: a TypeError on null, the field of an object that has it, else
\* undefined.
get(v, name) ==
    IF v.type = "null" THEN [thrown |-> "TypeError"]
    ELSE IF v.type = "object" /\ name \in DOMAIN v.fields THEN [value |-> v.fields[name]]
    ELSE [value |-> Undefined]

\* x ?? d
orElse(x, d) == IF x.type \in {"undefined", "null"} THEN d ELSE x

\* A value taken as a condition.
truthy(v) ==
    /\ v.type \notin {"undefined", "null"}
    /\ v.type = "string" => v.value # ""
    /\ v.type = "number" => v.value # 0

\* ---------------------------------------------------------- critique tool
\* The queryModel call of a critique.
CritiqueCall == MaxModels + 4

\* A fold whose success branch gives an empty overallAssessment to a record
\* that has none.
critiqueOfEmptyAssessment(text) ==
    LET parsed == JSONparse(extractJson(text))
        field(name) == get(parsed.value, name).value
    IN  IF "thrown" \in DOMAIN parsed
        THEN [critique |-> [strengths |-> <<>>, weaknesses |-> <<>>, suggestions |-> <<>>,
                            overallAssessment |-> JString(text)]]
        ELSE IF "thrown" \in DOMAIN get(parsed.value, "strengths")
        THEN [thrown |-> "TypeError"]
        ELSE [critique |->
                 [strengths |-> orElse(field("strengths"), JArray(<<>>)).items,
                  weaknesses |-> orElse(field("weaknesses"), JArray(<<>>)).items,
                  suggestions |-> orElse(field("suggestions"), JArray(<<>>)).items,
                  overallAssessment |-> orElse(field("overallAssessment"), JString(""))]]

\* Try(() => JSON.parse(extractJson(text))).fold(...): the Critique, or the
\* error the success branch throws when it reads a field of null.
critiqueOf(text) ==
    LET parsed == JSONparse(extractJson(text))
        field(name) == get(parsed.value, name).value
    IN  IF "thrown" \in DOMAIN parsed
        THEN [critique |-> [strengths |-> <<>>, weaknesses |-> <<>>, suggestions |-> <<>>,
                            overallAssessment |-> JString(text)]]
        ELSE IF "thrown" \in DOMAIN get(parsed.value, "strengths")
        THEN [thrown |-> "TypeError"]
        ELSE [critique |->
                 [strengths |-> orElse(field("strengths"), JArray(<<>>)).items,
                  weaknesses |-> orElse(field("weaknesses"), JArray(<<>>)).items,
                  suggestions |-> orElse(field("suggestions"), JArray(<<>>)).items,
                  overallAssessment |-> orElse(field("overallAssessment"), JString(text))]]

\* critique.execute up to its await queryModel(criticModel, critiquePrompt).
Critique(criticModel) ==
    /\ critique.status = "idle"
    /\ LET st == queryModelStart(GateState, CritiqueCall, criticModel) IN
        /\ permits' = st.permits
        /\ waitQueue' = st.waitQueue
        /\ calls' = st.calls
        /\ providers' = st.providers
        /\ arrivals' = st.arrivals
    /\ critique' = [critique EXCEPT !.status = "pending", !.criticModel = criticModel]
    /\ UNCHANGED <<maxConcurrent, configured, fan, debate, challenge, env, defaultModels>>

\* critique.execute after the await: the error record for a failed query,
\* else the parsed Critique in a CritiqueResult; an error thrown on the way
\* rejects the call.
CritiqueSettles ==
    /\ critique.status = "pending"
    /\ calls[CritiqueCall].pc = "done"
    /\ LET r == calls[CritiqueCall].result IN
       critique' =
          IF "rejected" \in DOMAIN r
          THEN [critique EXCEPT !.status = "rejected", !.out = [thrown |-> r.rejected]]
          ELSE IF isModelError(r)
          THEN [critique EXCEPT !.status = "returned",
                                !.out = [error |-> <<Lit("Critique failed: ")>> \o r.error]]
          ELSE LET c == critiqueOf(r.text) IN
               IF "thrown" \in DOMAIN c
               THEN [critique EXCEPT !.status = "rejected", !.out = c]
               ELSE [critique EXCEPT !.status = "returned",
                                     !.out = [critique |-> c.critique,
                                              metadata |-> [criticModel |-> critique.criticModel,
                                                            latencyMs |-> Elapsed]]]
    /\ UNCHANGED <<permits, waitQueue, maxConcurrent, calls, arrivals, configured,
                   providers, fan, debate, challenge, env, defaultModels>>

\* The texts a critic answers with: prose, JSON documents that are not
\* records, records with all, some and none of the fields, and fenced
\* documents.
CritiqueTexts ==
    {"Looks fine to me.", "null", "42", "[]", "{}",
     "{\"overallAssessment\": \"solid\"}",
     "{\"strengths\": [\"clear\"], \"weaknesses\": null}",
     "{\"strengths\": [\"clear\"], \"weaknesses\": [\"long\"], \"suggestions\": [\"trim\"], \"overallAssessment\": \"good\"}",
     "'''json\nnull\n'''",
     "'''json\n{\"overallAssessment\": \"solid\"}\n'''"}

CritiqueOutcomes ==
    [text : CritiqueTexts] \cup {o \in GenerateTextOutcomes : "thrown" \in DOMAIN o}

CritiqueInit ==
    /\ maxConcurrent \in 1..MaxPermits
    /\ permits = maxConcurrent
    /\ waitQueue = <<>>
    /\ calls = [c \in {CritiqueCall, SingleCall} |-> IdleCall]
    /\ arrivals = <<>>
    /\ configured \in ConfiguredSets
    /\ providers = {}
    /\ fan = IdleFan
    /\ debate = IdleDebate
    /\ critique = IdleCritique
    /\ challenge = IdleChallenge
    /\ env = EnvFor(maxConcurrent)
    /\ defaultModels = NoResult

CritiqueNext ==
    \/ \E ms \in ModelIds : Critique(ms)
    \/ \E ms \in ModelIds : QueryModelTool(ms)
    \/ \E c \in {CritiqueCall, SingleCall} : Resume(c)
    \/ \E c \in {CritiqueCall, SingleCall} :
          \E o \in CritiqueOutcomes : GenerateTextSettles(c, o)
    \/ CritiqueSettles

CritiqueSpec == CritiqueInit /\ [][CritiqueNext]_vars

\* --------------------------------------------------------- challenge tool
ALL_CHALLENGE_TYPES == {"logical", "factual", "completeness", "edge_cases", "alternatives"}

\* The keys bySeverity starts with.
Severities == {"minor", "moderate", "significant"}

\* Try(() => JSON.parse(extractJson(text))).fold(() => [], (result) =>
\* Array.isArray(result) ? result : []): the entries of one response.
parsedOf(text) ==
    LET p == JSONparse(extractJson(text)) IN
    IF "thrown" \in DOMAIN p THEN <<>>
    ELSE IF p.value.type = "array" THEN p.value.items
    ELSE <<>>

\* The test an entry has to pass to be pushed; get throws for the entry null.
kept(p) ==
    LET challengeType == get(p, "challengeType").value IN
    /\ truthy(challengeType)
    /\ challengeType.type = "string" /\ challengeType.value \in ALL_CHALLENGE_TYPES
    /\ truthy(get(p, "challenge").value)
    /\ truthy(get(p, "severity").value)
    /\ truthy(get(p, "reasoning").value)

\* The Challenge pushed for entry p of response.
challengeFrom(response, p) ==
    [model |-> response.model,
     challengeType |-> get(p, "challengeType").value.value,
     challenge |-> get(p, "challenge").value,
     severity |-> get(p, "severity").value,
     reasoning |-> get(p, "reasoning").value,
     latencyMs |-> response.latencyMs]

\* parsed.forEach of one response: the challenges it pushes, or the TypeError
\* of reading p.challengeType on an entry null, which ends the whole forEach.
challengesOf(response) ==
    LET parsed == parsedOf(response.text) IN
    IF \E i \in 1..Len(parsed) : "thrown" \in DOMAIN get(parsed[i], "challengeType")
    THEN [thrown |-> "TypeError"]
    ELSE LET good == SelectSeq(parsed, kept) IN
         [challenges |-> [i \in 1..Len(good) |-> challengeFrom(response, good[i])]]

RECURSIVE allChallenges(_)
\* responses.forEach: the challenges of all responses in order, or the error
\* thrown at the first response that throws.
allChallenges(responses) ==
    IF responses = <<>> THEN [challenges |-> <<>>]
    ELSE LET head == challengesOf(Head(responses))
             rest == allChallenges(Tail(responses))
         IN  IF "thrown" \in DOMAIN head THEN head
             ELSE IF "thrown" \in DOMAIN rest THEN rest
             ELSE [challenges |-> head.challenges \o rest.challenges]

\* bySeverity and byType after allChallenges.forEach: bySeverity[s]++ on a key
\* that is not there makes it NaN.
summaryOf(cs) ==
    LET count(P(_)) == Cardinality({i \in 1..Len(cs) : P(cs[i])})
        seen == {cs[i].severity.value : i \in 1..Len(cs)}
        types == {cs[i].challengeType : i \in 1..Len(cs)}
    IN  [totalChallenges |-> Len(cs),
         bySeverity |-> [s \in Severities \cup seen |->
                            IF s \in Severities
                            THEN count(LAMBDA c : c.severity.value = s) ELSE "NaN"],
         byType |-> [t \in types |-> count(LAMBDA c : c.challengeType = t)]]

\* The ChallengeResult of execute.
challengeResult(parts, cs) ==
    [challenges |-> cs, errors |-> parts.errors, summary |-> summaryOf(cs),
     metadata |-> [totalLatencyMs |-> Elapsed,
                   successCount |-> Len(parts.responses),
                   challengerModels |-> [i \in 1..Len(parts.responses) |->
                                            parts.responses[i].model]]]

\* challenge.execute up to its await queryModels(challengers, challengePrompt).
Challenge(challengers) ==
    /\ challenge.status = "idle"
    /\ fan.status = "idle"
    /\ LET st == queryModelsStart(GateState, challengers, 1) IN
        /\ permits' = st.permits
        /\ waitQueue' = st.waitQueue
        /\ calls' = st.calls
        /\ providers' = st.providers
        /\ arrivals' = st.arrivals
    /\ challenge' = [challenge EXCEPT !.status = "pending", !.challengers = challengers]
    /\ UNCHANGED <<maxConcurrent, configured, fan, debate, critique, env, defaultModels>>

\* challenge.execute after the await: every response is parsed and the
\* result is built; an error thrown on the way rejects the call.
ChallengeSettles ==
    /\ challenge.status = "pending"
    /\ LET n == Len(challenge.challengers)
           all == PromiseAll(calls, n)
           parts == partition(settledResults(calls, n))
           cs == allChallenges(parts.responses)
       IN
        /\ all # "pending"
        /\ challenge' =
              IF all = "rejected"
              THEN [challenge EXCEPT !.status = "rejected"]
              ELSE IF "thrown" \in DOMAIN cs
              THEN [challenge EXCEPT !.status = "rejected", !.out = cs]
              ELSE [challenge EXCEPT !.status = "returned",
                                     !.out = challengeResult(parts, cs.challenges)]
    /\ UNCHANGED <<permits, waitQueue, maxConcurrent, calls, arrivals, configured,
                   providers, fan, debate, critique, env, defaultModels>>

\* The texts a challenger answers with: prose, a record instead of a list,
\* a list of one challenge, a list with malformed entries among good ones,
\* a list with the entry null, and a challenge of severity critical.
ChallengeTexts ==
    {"I see no problems.",
     "{\"challenges\": []}",
     "[{\"challengeType\": \"logical\", \"challenge\": \"circular\", \"severity\": \"minor\", \"reasoning\": \"begs the question\"}]",
     "[{\"challengeType\": \"logical\", \"challenge\": \"vague\", \"reasoning\": \"undefined terms\"}, {\"challengeType\": \"factual\", \"challenge\": \"unsourced\", \"severity\": \"significant\", \"reasoning\": \"no evidence\"}, {\"challengeType\": \"style\", \"challenge\": \"wordy\", \"severity\": \"minor\", \"reasoning\": \"too long\"}, 42, {\"challengeType\": \"edge_cases\", \"challenge\": \"empty input\", \"severity\": \"moderate\", \"reasoning\": \"\"}]",
     "[null, {\"challengeType\": \"logical\", \"challenge\": \"circular\", \"severity\": \"minor\", \"reasoning\": \"begs the question\"}]",
     "[{\"challengeType\": \"logical\", \"challenge\": \"circular\", \"severity\": \"critical\", \"reasoning\": \"begs the question\"}]"}

ChallengeOutcomes ==
    [text : ChallengeTexts]
        \cup {[thrown |-> [isError |-> TRUE, message |-> "The operation was aborted due to timeout"]]}

\* The challenger lists that are explored: a model that resolves with openai
\* configured and one that needs openrouter.
ChallengerIds == {<<"openai", "gpt-4o">>, <<"gpt-4o">>}

ChallengeInit ==
    /\ maxConcurrent \in 1..MaxPermits
    /\ permits = maxConcurrent
    /\ waitQueue = <<>>
    /\ calls = [c \in FanCalls |-> IdleCall]
    /\ arrivals = <<>>
    /\ configured \in ConfiguredSets
    /\ providers = {}
    /\ fan = IdleFan
    /\ debate = IdleDebate
    /\ critique = IdleCritique
    /\ challenge = IdleChallenge
    /\ env = EnvFor(maxConcurrent)
    /\ defaultModels = NoResult

ChallengeNext ==
    \/ \E challengers \in SeqsUpTo(ChallengerIds, MaxModels) : Challenge(challengers)
    \/ \E c \in FanCalls : Resume(c)
    \/ \E c \in FanCalls : \E o \in ChallengeOutcomes : GenerateTextSettles(c, o)
    \/ ChallengeSettles

ChallengeSpec == ChallengeInit /\ [][ChallengeNext]_vars

\* ------------------------------------------- all tools on the one gate
\* The tools running side by side in one process: a fan-out (council_query
\* or challenge), a debate, a critique and a query_model call, all going
\* through getRateLimiter()'s single Semaphore.  The inputs are kept to one
\* model that resolves, one round, and queries that answer.
GateModel == <<"openai", "gpt-4o">>

GateOutcomes == {[text |-> "alpha"]}

GateCalls == FanCalls \cup DebateCalls \cup {SingleCall, CritiqueCall}

GateInit ==
    /\ maxConcurrent \in 1..MaxPermits
    /\ permits = maxConcurrent
    /\ waitQueue = <<>>
    /\ calls = [c \in GateCalls |-> IdleCall]
    /\ arrivals = <<>>
    /\ configured = {"openai"}
    /\ providers = {}
    /\ fan = IdleFan
    /\ debate = IdleDebate
    /\ critique = IdleCritique
    /\ challenge = IdleChallenge
    /\ env = EnvFor(maxConcurrent)
    /\ defaultModels = NoResult

GateNext ==
    \/ \E n \in 1..MaxModels :
          challenge.status = "idle" /\ CouncilQuery([i \in 1..n |-> GateModel])
    \/ \E n \in 1..MaxModels : Challenge([i \in 1..n |-> GateModel])
    \/ Debate(GateModel, GateModel, 2 * 1)
    \/ Critique(GateModel)
    \/ QueryModelTool(GateModel)
    \/ \E c \in GateCalls : Resume(c)
    \/ \E c \in GateCalls : \E o \in GateOutcomes : GenerateTextSettles(c, o)
    \/ QueryModelsSettles
    \/ ChallengeSettles
    \/ AffirmativeSettles
    \/ NegativeSettles
    \/ CritiqueSettles

GateSpec == GateInit /\ [][GateNext]_vars

\* ------------------------------------------------------ gate properties
Holding(c) == calls[c].pc \in {"granted", "running"}

Inside == {c \in CallIds : calls[c].pc = "running"}

Holders == {c \in CallIds : Holding(c)}

Waiting == {c \in CallIds : calls[c].pc = "waiting"}

\* C1: for every permit count P >= 1 and any number of tasks entering the gate
\* (acquire/release pairs or withPermit), at most P tasks are inside the
\* guarded section at the same time.
C1_AtMostPInside == Cardinality(Inside) <= maxConcurrent

\* C1 witness: the gate is full, with a pair task and a withPermit task inside
\* and a further task kept waiting.
C1_Witness ==
    /\ Cardinality(Inside) = maxConcurrent
    /\ maxConcurrent >= 2
    /\ \E c \in Inside : calls[c].kind = "pair"
    /\ \E c \in Inside : calls[c].kind = "withPermit"
    /\ Waiting # {}

\* C2: withPermit(fn) releases exactly once for its acquire on every exit path
\* of fn (return or throw): no release before fn settles, one release once it
\* has, and with no call left in the gate every permit is back, so a later
\* withPermit acquires at once.
C2_ReleaseOncePerAcquire ==
    /\ \A c \in CallIds :
          calls[c].kind = "withPermit" =>
              /\ calls[c].acquired = 1
              /\ calls[c].released = IF calls[c].pc = "done" THEN 1 ELSE 0
    /\ ((\A c \in CallIds : calls[c].kind \in {"none", "withPermit"}
                              /\ calls[c].pc \in {"idle", "done"})
            => permits = maxConcurrent)

\* C2 witness: on a 1-permit semaphore a withPermit has ended by a throw and a
\* later withPermit took the permit directly and runs.
C2_Witness ==
    /\ maxConcurrent = 1
    /\ \E c, d \in CallIds :
          /\ calls[c].kind = "withPermit" /\ calls[c].pc = "done"
          /\ calls[c].exit = "throw"
          /\ calls[d].kind = "withPermit" /\ calls[d].pc = "running"
          /\ calls[d].via = "direct"

\* No call holds a permit while a call that asked earlier still waits, and
\* the wait queue holds the waiting calls in the order they asked.
FifoOrder ==
    /\ \A w \in Waiting : \A h \in Holders :
          IndexOf(arrivals, h) < IndexOf(arrivals, w)
    /\ Range(waitQueue) = Waiting
    /\ \A i, j \in 1..Len(waitQueue) :
          i < j => IndexOf(arrivals, waitQueue[i]) < IndexOf(arrivals, waitQueue[j])

\* A release with waiters hands the permit to the oldest one and leaves the
\* counter alone; every other waiter keeps its place.
HandOff ==
    (waitQueue # <<>> /\ \E c \in CallIds : calls[c].pc = "running" /\ calls'[c].pc = "done")
        => /\ permits' = permits
           /\ waitQueue' = Tail(waitQueue)
           /\ calls'[Head(waitQueue)].pc = "granted"
           /\ \A w \in Waiting \ {Head(waitQueue)} : calls'[w].pc = "waiting"

\* C8: blocked acquirers are served in FIFO order: a release with a non-empty
\* queue hands the permit to the earliest waiter, leaves the permit counter
\* unchanged, and no later acquirer gets a permit before an earlier-queued one.
C8_FifoHandOff == []FifoOrder /\ [][HandOff]_vars

\* C8 witness: the oldest of two waiters was handed the permit and the younger
\* one still waits.
C8_Witness ==
    \E h \in Holders : \E w \in Waiting :
        /\ calls[h].via = "handoff"
        /\ IndexOf(arrivals, h) < IndexOf(arrivals, w)

\* ---------------------------------------------------- fan-out properties
FanN == Len(fan.models)

\* The query of call c failed: its model did not resolve (it never entered
\* the gate), or its generateText threw.
QueryFailed(c) == calls[c].acquired = 0 \/ calls[c].exit = "throw"

QueryDone(c) == calls[c].kind = "query" /\ calls[c].pc = "done"

CountOf(q, ms) == Cardinality({i \in 1..Len(q) : q[i] = ms})

ModelsOf(q) == [i \in 1..Len(q) |-> q[i].model]

\* C3: queryModels over N identifiers of which K queries fail returns exactly
\* K errors and N-K responses, every input accounted for exactly once (also
\* with repeated identifiers), successCount is N-K, and it never raises.
C3_FanOutPartition ==
    /\ fan.status # "rejected"
    /\ fan.status = "returned" =>
          LET K == Cardinality({i \in 1..FanN : QueryFailed(i)}) IN
          /\ Len(fan.out.errors) = K
          /\ Len(fan.out.responses) = FanN - K
          /\ fan.out.metadata.successCount = FanN - K
          /\ \A ms \in Range(fan.models) :
                CountOf(ModelsOf(fan.out.responses), ms)
                    + CountOf(ModelsOf(fan.out.errors), ms) = CountOf(fan.models, ms)

\* C3 witness: a returned fan-out over three identifiers, the first two equal,
\* where one of the equal ones threw, the other answered and the third did
\* not resolve.
C3_Witness ==
    /\ fan.status = "returned"
    /\ FanN = 3
    /\ fan.models[1] = fan.models[2]
    /\ calls[1].exit = "throw"
    /\ isModelResponse(calls[2].result)
    /\ calls[3].acquired = 0
    /\ fan.out.metadata.successCount = 1

\* C6: queryModel never rejects: a resolution error and anything thrown inside
\* the gated call are returned as a Failure record {model, error}.
C6_QueryModelNeverRejects ==
    \A c \in CallIds :
        QueryDone(c) =>
            /\ "rejected" \notin DOMAIN calls[c].result
            /\ QueryFailed(c) =>
                  /\ DOMAIN calls[c].result = {"model", "error"}
                  /\ calls[c].result.model = calls[c].model
                  /\ calls[c].result.error # <<>>

\* C6 witness: three finished queries, one failed by resolution, one by a
\* thrown Error (the timeout abort), one by a thrown non-Error value.
C6_Witness ==
    \E a, b, c \in CallIds :
        /\ QueryDone(a) /\ calls[a].acquired = 0
        /\ QueryDone(b) /\ calls[b].exit = "throw"
        /\ calls[b].result.error = <<Lit("The operation was aborted due to timeout")>>
        /\ QueryDone(c) /\ calls[c].exit = "throw"
        /\ calls[c].result.error = <<Lit("fetch failed")>>

\* C7: every QueryResult queryModel returns has exactly one of text and error,
\* so isModelResponse and isModelError are exclusive and exhaustive on it.
C7_ExactlyOneOfTextAndError ==
    \A c \in CallIds :
        QueryDone(c) => (isModelResponse(calls[c].result) # isModelError(calls[c].result))

\* C7 witness: a Success and both kinds of Failure have been returned.
C7_Witness ==
    \E a, b, c \in CallIds :
        /\ QueryDone(a) /\ isModelResponse(calls[a].result)
        /\ QueryDone(b) /\ isModelError(calls[b].result) /\ calls[b].acquired = 0
        /\ QueryDone(c) /\ isModelError(calls[c].result) /\ calls[c].exit = "throw"

\* C9: queryModels returns only after every one of its N queries has settled:
\* a failed or slow query neither cancels nor skips nor fails another one,
\* and there is no early exit on the first failure.
C9_WaitsForAll ==
    fan.status \in {"returned", "rejected"} =>
        \A i \in 1..FanN :
            /\ calls[i].pc = "done"
            /\ calls[i].result # NoResult
            /\ calls[i].acquired = 1 => calls[i].released = 1 /\ calls[i].exit # "none"
            /\ isModelError(calls[i].result) <=> QueryFailed(i)
            /\ calls[i].result \in Range(fan.out.responses) \cup Range(fan.out.errors)

\* C9 witness: the query that settled first failed, two others that settled
\* after it answered, and queryModels returned all three.
C9_Witness ==
    /\ fan.status = "returned"
    /\ fan.first # NoCall
    /\ calls[fan.first].exit = "throw"
    /\ Len(fan.out.responses) = 2
    /\ Len(fan.out.errors) = 1

\* ----------------------------------------------------- debate properties
Last(q) == q[Len(q)]

\* The side and round of the query a rejected debate issued last.
FailingSide == IF Last(debate.issued).prompt.arguing = "FOR" THEN "Affirmative" ELSE "Negative"
FailingRound == Last(debate.issued).prompt.round
FailingCall == IF FailingSide = "Affirmative" THEN AffCall ELSE NegCall

\* The number of rounds a debate with this rounds argument runs.
RoundsRun == debate.numRoundsX2 \div 2

\* C4: a debate of R rounds whose queries all succeed returns exactly R
\* DebateRound entries numbered 1..R in increasing order and totalExchanges
\* equal to 2R (R a whole number; for a fractional argument R is its integer
\* part and only the entries are claimed).
C4_RoundsAndExchanges ==
    debate.status = "returned" =>
        /\ Len(debate.out.rounds) = RoundsRun
        /\ \A i \in 1..RoundsRun : debate.out.rounds[i].round = i
        /\ debate.numRoundsX2 % 2 = 0 =>
              debate.out.metadata.totalExchanges = 2 * RoundsRun

\* C4 witness: a debate of two rounds has returned its two rounds.
C4_Witness ==
    /\ debate.status = "returned"
    /\ debate.numRoundsX2 = 2 * 2
    /\ Len(debate.out.rounds) = 2
    /\ debate.out.metadata.totalExchanges = 4

Gathered ==
    IF Len(debate.updatedArgs) > Len(debate.state.previousArguments)
    THEN debate.updatedArgs ELSE debate.state.previousArguments

\* The k-th query of a debate: affirmative(1), negative(1), affirmative(2), ...
ExpectedQuery(k) ==
    [model |-> IF k % 2 = 1 THEN debate.affirmativeModel ELSE debate.negativeModel,
     arguing |-> IF k % 2 = 1 THEN "FOR" ELSE "AGAINST",
     round |-> (k + 1) \div 2]

\* C10: the queries of a debate are issued in the order affirmative(1),
\* negative(1), ..., negative(R), each only after the one before it has
\* succeeded, and a successful debate issues exactly 2R of them.
C10_StrictTurnOrder ==
    debate.status # "idle" =>
        /\ \A k \in 1..Len(debate.issued) :
              /\ debate.issued[k].model = ExpectedQuery(k).model
              /\ debate.issued[k].prompt.arguing = ExpectedQuery(k).arguing
              /\ debate.issued[k].prompt.round = ExpectedQuery(k).round
        /\ Len(debate.issued) =
              Len(Gathered) + (IF debate.status = "returned" THEN 0 ELSE 1)
        /\ \A k \in 1..Len(Gathered) :
              /\ Gathered[k].round = ExpectedQuery(k).round
              /\ Gathered[k].model = ExpectedQuery(k).model
        /\ debate.status = "returned" => Len(debate.issued) = 2 * RoundsRun

\* C10 witness: a debate of two rounds has returned after its four queries.
C10_Witness ==
    /\ debate.status = "returned"
    /\ Len(debate.issued) = 4
    /\ debate.affirmativeModel # debate.negativeModel

\* The text the k-th turn of the debate answered with: from the DebateRound
\* of its round once that round is complete, else the affirmative text of
\* the round under way.
TurnText(k) ==
    LET r == (k + 1) \div 2 IN
    IF r <= Len(debate.state.rounds)
    THEN IF k % 2 = 1 THEN debate.state.rounds[r].affirmative
         ELSE debate.state.rounds[r].negative
    ELSE debate.affirmativeText

\* The transcript entry of the k-th turn.
TurnArg(k) ==
    [round |-> ExpectedQuery(k).round,
     side |-> IF k % 2 = 1 THEN "Affirmative" ELSE "Negative",
     model |-> ExpectedQuery(k).model,
     text |-> TurnText(k)]

\* C11: the transcript in the prompt of the k-th turn is the texts of turns
\* 1..k-1 in turn order: none for the affirmative of round 1, rounds 1..r-1 of
\* both sides for the affirmative of round r, those plus the affirmative text
\* of round r for the negative of round r; the texts are the ones the queries
\* returned, none missing, duplicated or out of order.
C11_TranscriptIsAllEarlierTurns ==
    /\ \A k \in 1..Len(debate.issued) :
          debate.issued[k].prompt.previous = [j \in 1..(k - 1) |-> TurnArg(j)]
    /\ debate.status = "negative" =>
          debate.affirmativeText = calls[AffCall].result.text
    /\ (debate.status \in {"affirmative", "returned"} /\ debate.state.rounds # <<>>) =>
          Last(debate.state.rounds).negative = calls[NegCall].result.text

\* C11 witness: the negative query of round 2 has been issued with a transcript
\* of three turns, of which the affirmative ones answered differently from the
\* negative one.
C11_Witness ==
    /\ debate.status = "negative"
    /\ debate.round = 2
    /\ Len(Last(debate.issued).prompt.previous) = 3
    /\ Last(debate.issued).prompt.previous[1].text # Last(debate.issued).prompt.previous[2].text
    /\ Last(debate.issued).prompt.previous[3].text # Last(debate.issued).prompt.previous[2].text

\* --------------------------------------------------- resolution properties
ResolveDone(c) == calls[c].kind = "resolve" /\ calls[c].pc = "done"

\* What a resolveModel call returned: Right(model) or Left(error).
Outcome(c) ==
    [f \in DOMAIN calls[c].result \ {"parsed", "before", "created"} |->
        calls[c].result[f]]

DirectProviders == ALL_PROVIDERS \ {"openrouter"}

\* The identifier starts with the prefix of provider p.
HasPrefix(ms, p) == Len(ms) >= 2 /\ Head(ms) = p

\* C12: resolution is deterministic: with the same configured providers, two
\* resolutions of the same identifier yield the same provider and model name
\* or the same error, however many resolutions came before and whatever the
\* provider-instance cache held.
C12_ResolutionDeterministic ==
    \A c, d \in CallIds :
        (ResolveDone(c) /\ ResolveDone(d) /\ calls[c].model = calls[d].model)
            => Outcome(c) = Outcome(d)

\* C12 witness: the same direct-provider identifier was resolved through the
\* OpenRouter fallback twice, once with an empty cache and once after another
\* resolution had created the OpenRouter instance.
C12_Witness ==
    \E c, d \in CallIds :
        /\ ResolveDone(c) /\ ResolveDone(d)
        /\ calls[c].model = calls[d].model
        /\ HasPrefix(calls[c].model, "anthropic")
        /\ calls[c].result.before = {}
        /\ calls[d].result.before = {"openrouter"}
        /\ calls[d].result.ok
        /\ calls[d].result.model.provider = "openrouter"

\* C13: an identifier with the prefix of a direct provider p is bound to p
\* when p is configured; else, when openrouter is configured, to openrouter
\* with the vendor-qualified path of the same model; else resolution fails
\* with an error naming p's key and the openrouter key.  It succeeds exactly
\* when p or openrouter is configured, and p is preferred.
C13_DirectThenRouterFallback ==
    \A c \in CallIds : \A p \in DirectProviders :
        (ResolveDone(c) /\ HasPrefix(calls[c].model, p)) =>
            LET name == Tail(calls[c].model)
                vendor == IF p = "mistral" THEN "mistralai" ELSE p
                key == IF p = "google" THEN "GOOGLE_GENERATIVE_AI_API_KEY"
                       ELSE IF p = "openai" THEN "OPENAI_API_KEY"
                       ELSE IF p = "anthropic" THEN "ANTHROPIC_API_KEY"
                       ELSE "MISTRAL_API_KEY"
                out == Outcome(c)
            IN  /\ out.ok <=> (p \in configured \/ "openrouter" \in configured)
                /\ p \in configured =>
                      out = [ok |-> TRUE, model |-> [provider |-> p, modelId |-> name]]
                /\ (p \notin configured /\ "openrouter" \in configured) =>
                      out = [ok |-> TRUE,
                             model |-> [provider |-> "openrouter",
                                        modelId |-> <<vendor>> \o name]]
                /\ (p \notin configured /\ "openrouter" \notin configured) =>
                      /\ Env(key) \in Range(out.error)
                      /\ Env("OPENROUTER_API_KEY") \in Range(out.error)

\* C13 witness: with openai and openrouter both configured and mistral not,
\* an openai model was bound to openai and a mistral model to openrouter.
C13_Witness ==
    /\ {"openai", "openrouter"} \subseteq configured
    /\ "mistral" \notin configured
    /\ \E c, d \in CallIds :
          /\ ResolveDone(c) /\ HasPrefix(calls[c].model, "openai")
          /\ calls[c].result.model.provider = "openai"
          /\ ResolveDone(d) /\ HasPrefix(calls[d].model, "mistral")
          /\ calls[d].result.model.provider = "openrouter"
          /\ Head(calls[d].result.model.modelId) = "mistralai"

\* C14: an identifier starting with openrouter/ parses to provider openrouter
\* with the remainder as model name, also when the remainder starts with
\* another provider's prefix; an identifier starting with another known
\* prefix parses to that provider with the prefix stripped.
C14_OpenRouterPrefixFirst ==
    \A c \in CallIds : \A p \in ALL_PROVIDERS :
        (ResolveDone(c) /\ HasPrefix(calls[c].model, p)) =>
            calls[c].result.parsed =
                [ok |-> TRUE, provider |-> p, model |-> Tail(calls[c].model)]

\* C14 witness: openrouter/openai/... was parsed to openrouter with the nested
\* path as model name where openai is configured and openrouter is not, so
\* that its resolution failed.
C14_Witness ==
    /\ "openai" \in configured
    /\ "openrouter" \notin configured
    /\ \E c \in CallIds :
          /\ ResolveDone(c)
          /\ HasPrefix(calls[c].model, "openrouter")
          /\ HasPrefix(Tail(calls[c].model), "openai")
          /\ calls[c].result.parsed.provider = "openrouter"
          /\ calls[c].result.parsed.model = Tail(calls[c].model)
          /\ ~calls[c].result.ok

\* C15: an identifier with no known provider prefix parses to openrouter with
\* the whole identifier as model name when openrouter is configured;
\* otherwise its resolution fails with an error containing the identifier.
C15_UnprefixedDefaultsToOpenRouter ==
    \A c \in CallIds :
        (ResolveDone(c) /\ \A p \in ALL_PROVIDERS : ~HasPrefix(calls[c].model, p)) =>
            IF "openrouter" \in configured
            THEN /\ calls[c].result.parsed =
                        [ok |-> TRUE, provider |-> "openrouter", model |-> calls[c].model]
                 /\ Outcome(c) = [ok |-> TRUE,
                                  model |-> [provider |-> "openrouter",
                                             modelId |-> calls[c].model]]
            ELSE /\ ~calls[c].result.ok
                 /\ Id(calls[c].model) \in Range(calls[c].result.error)

\* C15 witness: with openai configured and openrouter not, the identifier
\* "openai" (no slash) and an unknown vendor path both failed to resolve.
C15_Witness ==
    /\ "openai" \in configured
    /\ "openrouter" \notin configured
    /\ \E c, d \in CallIds :
          /\ ResolveDone(c) /\ calls[c].model = <<"openai">> /\ ~calls[c].result.ok
          /\ ResolveDone(d) /\ Len(calls[d].model) = 2 /\ ~calls[d].result.ok
          /\ \A p \in ALL_PROVIDERS : ~HasPrefix(calls[d].model, p)

\* ---------------------------------------------------- critique properties
CritiqueEnded == critique.status \in {"returned", "rejected"}

\* The record the critic's query returned.
CriticResult == calls[CritiqueCall].result

\* Structured extraction yields a record: the text, fences stripped, is a
\* JSON document whose value is an object.
YieldsRecord(text) ==
    LET p == JSONparse(extractJson(text)) IN
    "value" \in DOMAIN p /\ p.value.type = "object"

\* C16 as stated: for a successful response whose text does not yield a
\* record, critique returns a Critique with empty strengths, weaknesses and
\* suggestions and the raw text as overallAssessment, and does not raise.
C16_NonRecordGivesRawText ==
    (CritiqueEnded /\ isModelResponse(CriticResult) /\ ~YieldsRecord(CriticResult.text))
        => /\ critique.status = "returned"
           /\ critique.out.critique =
                 [strengths |-> <<>>, weaknesses |-> <<>>, suggestions |-> <<>>,
                  overallAssessment |-> JString(CriticResult.text)]

\* C16 failing state: the critic answered with the JSON document null inside
\* a code fence, and critique was rejected with a TypeError.
C16_Witness ==
    /\ critique.status = "rejected"
    /\ isModelResponse(CriticResult)
    /\ CriticResult.text \in DOMAIN Fenced
    /\ extractJson(CriticResult.text) = "null"
    /\ critique.out = [thrown |-> "TypeError"]

\* C17 as stated: critique never throws past its own boundary, and when the
\* critic's query fails (resolution or transport) it returns a record that
\* carries the failure as data.
C17_CritiqueNeverThrows ==
    /\ critique.status # "rejected"
    /\ (CritiqueEnded /\ isModelError(CriticResult)) =>
          /\ critique.status = "returned"
          /\ critique.out = [error |-> <<Lit("Critique failed: ")>> \o CriticResult.error]

\* C17 failing state: the critic's query succeeded with the text null, and
\* critique was rejected.
C17_Witness ==
    /\ critique.status = "rejected"
    /\ isModelResponse(CriticResult)
    /\ CriticResult.text = "null"

\* --------------------------------------------------- challenge properties
ChallengeEnded == challenge.status \in {"returned", "rejected"}

\* The successful responses of the challengers, in input order.
ChallengeResponses ==
    LET n == Len(challenge.challengers)
        ok == SelectSeq([i \in 1..n |-> i], LAMBDA i : isModelResponse(calls[i].result))
    IN  [k \in 1..Len(ok) |-> calls[ok[k]].result]

\* The text, fences stripped, is a JSON document whose value is a list.
IsList(text) ==
    LET p == JSONparse(extractJson(text)) IN
    "value" \in DOMAIN p /\ p.value.type = "array"

EntriesOf(text) == JSONparse(extractJson(text)).value.items

\* An entry is well-formed: a record with a category of the fixed set and a
\* non-empty challenge, severity and reasoning.
WellFormed(e) ==
    /\ e.type = "object"
    /\ {"challengeType", "challenge", "severity", "reasoning"} \subseteq DOMAIN e.fields
    /\ \A f \in {"challengeType", "challenge", "severity", "reasoning"} :
          e.fields[f].type = "string" /\ e.fields[f].value # ""
    /\ e.fields.challengeType.value \in
          {"logical", "factual", "completeness", "edge_cases", "alternatives"}

\* What one response is to contribute: nothing when its text is not a list,
\* else one challenge per well-formed entry, in order.
Contribution(response) ==
    IF ~IsList(response.text) THEN <<>>
    ELSE LET good == SelectSeq(EntriesOf(response.text), WellFormed) IN
         [i \in 1..Len(good) |->
             [model |-> response.model,
              challengeType |-> good[i].fields.challengeType.value,
              challenge |-> good[i].fields.challenge,
              severity |-> good[i].fields.severity,
              reasoning |-> good[i].fields.reasoning,
              latencyMs |-> response.latencyMs]]

RECURSIVE Contributions(_)
Contributions(responses) ==
    IF responses = <<>> THEN <<>>
    ELSE Contribution(Head(responses)) \o Contributions(Tail(responses))

\* C18 as stated: a response whose text cannot be parsed into a list
\* contributes no challenge, the challenges of every other response are
\* still returned, and the operation does not fail.
C18_ParseFailureIsolated ==
    (ChallengeEnded
        /\ \E i \in 1..Len(ChallengeResponses) : ~IsList(ChallengeResponses[i].text))
        => /\ challenge.status = "returned"
           /\ challenge.out.challenges = Contributions(ChallengeResponses)

\* C18 failing state: one challenger answered in prose, another with a list
\* that holds the entry null, and the whole operation was rejected.
C18_Witness ==
    /\ challenge.status = "rejected"
    /\ \E i, j \in 1..Len(ChallengeResponses) :
          /\ ~IsList(ChallengeResponses[i].text)
          /\ IsList(ChallengeResponses[j].text)
          /\ \E k \in 1..Len(EntriesOf(ChallengeResponses[j].text)) :
                EntriesOf(ChallengeResponses[j].text)[k] = JNull

\* C19 as stated: a malformed entry (a required field missing, a category
\* outside the fixed set, or not a record at all) is dropped on its own, the
\* well-formed entries of the same response are kept, and the operation does
\* not fail.
C19_MalformedEntryDropped ==
    (ChallengeEnded
        /\ \E i \in 1..Len(ChallengeResponses) :
              /\ IsList(ChallengeResponses[i].text)
              /\ \E k \in 1..Len(EntriesOf(ChallengeResponses[i].text)) :
                    ~WellFormed(EntriesOf(ChallengeResponses[i].text)[k]))
        => /\ challenge.status = "returned"
           /\ \A i \in 1..Len(ChallengeResponses) :
                 \A k \in 1..Len(Contribution(ChallengeResponses[i])) :
                    \E j \in 1..Len(challenge.out.challenges) :
                        challenge.out.challenges[j] = Contribution(ChallengeResponses[i])[k]
           /\ Len(challenge.out.challenges) = Len(Contributions(ChallengeResponses))

\* C19 failing state: the only response is a list of the entry null and a
\* well-formed entry, and the operation was rejected with a TypeError.
C19_Witness ==
    /\ challenge.status = "rejected"
    /\ challenge.out = [thrown |-> "TypeError"]
    /\ Len(ChallengeResponses) = 1
    /\ \E k \in 1..Len(EntriesOf(ChallengeResponses[1].text)) :
          WellFormed(EntriesOf(ChallengeResponses[1].text)[k])

\* ------------------------------------------------- shared gate properties
\* The model calls in flight: the queries that hold a permit.
InFlight == {c \in CallIds : calls[c].kind = "query" /\ Holding(c)}

TimeoutError == [isError |-> TRUE, message |-> "The operation was aborted due to timeout"]

TimeoutOutcomes == {[text |-> "alpha"], [thrown |-> TimeoutError]}

TimeoutCalls == FanCalls \cup {SingleCall}

TimeoutInit ==
    /\ maxConcurrent \in 1..MaxPermits
    /\ permits = maxConcurrent
    /\ waitQueue = <<>>
    /\ calls = [c \in TimeoutCalls |-> IdleCall]
    /\ arrivals = <<>>
    /\ configured = {"openai"}
    /\ providers = {}
    /\ fan = IdleFan
    /\ debate = IdleDebate
    /\ critique = IdleCritique
    /\ challenge = IdleChallenge
    /\ env = EnvFor(maxConcurrent)
    /\ defaultModels = NoResult

TimeoutNext ==
    \/ \E n \in 1..MaxModels : CouncilQuery([i \in 1..n |-> GateModel])
    \/ QueryModelTool(GateModel)
    \/ \E c \in TimeoutCalls : Resume(c)
    \/ \E c \in TimeoutCalls : \E o \in TimeoutOutcomes : GenerateTextSettles(c, o)
    \/ QueryModelsSettles

TimeoutSpec == TimeoutInit /\ [][TimeoutNext]_vars

\* The generateText of call c is aborted by its timeout in this step.
TimesOut(c) ==
    /\ calls[c].pc = "running"
    /\ calls'[c].pc = "done"
    /\ calls'[c].exit = "throw"

\* What the step of a timeout of call c does, and what it leaves alone.
TimeoutIsLocal(c) ==
    /\ calls'[c].result = [model |-> calls[c].model, error |-> errorText(TimeoutError)]
    /\ calls'[c].released = 1
    /\ IF waitQueue = <<>>
       THEN /\ permits' = permits + 1
            /\ waitQueue' = <<>>
            /\ \A d \in CallIds \ {c} : calls'[d] = calls[d]
       ELSE /\ permits' = permits
            /\ waitQueue' = Tail(waitQueue)
            /\ calls'[Head(waitQueue)] =
                   [calls[Head(waitQueue)] EXCEPT !.pc = "granted", !.via = "handoff"]
            /\ \A d \in CallIds \ {c, Head(waitQueue)} : calls'[d] = calls[d]
    /\ fan'.status = fan.status
    /\ fan'.models = fan.models

\* C21: a timeout of one in-flight query affects only that query: it settles
\* as the Failure of its model, its permit goes back to the gate or to the
\* oldest waiter, every other query in flight or queued (of the same fan-out
\* or of another operation) is left as it was, and the fan-out is not ended.
C21_TimeoutAffectsOnlyItsQuery ==
    /\ [][\A c \in CallIds : TimesOut(c) => TimeoutIsLocal(c)]_vars
    /\ [](fan.status # "rejected")

\* C21 witness: on a 1-permit gate the first query of a fan-out of 3 timed
\* out, the second was handed its permit, and the third and a query_model
\* call still wait.
C21_Witness ==
    /\ maxConcurrent = 1
    /\ fan.status = "pending" /\ Len(fan.models) = 3
    /\ calls[1].pc = "done" /\ calls[1].exit = "throw"
    /\ calls[1].result = [model |-> GateModel, error |-> errorText(TimeoutError)]
    /\ Holding(2) /\ calls[2].via = "handoff"
    /\ calls[3].pc = "waiting"
    /\ calls[SingleCall].pc = "waiting"

\* ------------------------------------------------------- getMaxConcurrent
\* Bound: the longest value of an environment variable that is explored.
MaxLen == 3

DEFAULT_MAX_CONCURRENT == 5

\* A number of JavaScript: NaN, or a value.
NaN == [nan |-> TRUE]
Number(n) == [nan |-> FALSE, value |-> n]
isNaN(x) == x.nan

DigitValue ==
    "0" :> 0 @@ "1" :> 1 @@ "2" :> 2 @@ "3" :> 3 @@ "4" :> 4
    @@ "5" :> 5 @@ "6" :> 6 @@ "7" :> 7 @@ "8" :> 8 @@ "9" :> 9

RECURSIVE trimStart(_)
\* The string without its leading white space.
trimStart(s) == IF s # <<>> /\ Head(s) = " " THEN trimStart(Tail(s)) ELSE s

RECURSIVE leadingDigits(_)
\* The longest prefix of s made of decimal digits.
leadingDigits(s) ==
    IF s # <<>> /\ Head(s) \in DOMAIN DigitValue
    THEN <<Head(s)>> \o leadingDigits(Tail(s))
    ELSE <<>>

RECURSIVE numberOf(_)
\* The number a sequence of decimal digits denotes.
numberOf(ds) ==
    IF ds = <<>> THEN 0
    ELSE 10 * numberOf(SubSeq(ds, 1, Len(ds) - 1)) + DigitValue[ds[Len(ds)]]

\* parseInt(v, 10): leading white space is skipped, a sign is taken, and the
\* digits that follow are read up to the first other character; NaN when
\* there is no digit there.
parseInt(v) ==
    LET t == trimStart(v)
        signed == t # <<>> /\ Head(t) \in {"-", "+"}
        ds == leadingDigits(IF signed THEN Tail(t) ELSE t)
    IN  IF ds = <<>> THEN NaN
        ELSE IF signed /\ Head(t) = "-" THEN Number(0 - numberOf(ds))
        ELSE Number(numberOf(ds))

\* A getMaxConcurrent that takes every number parseInt gives.
getMaxConcurrentUnfiltered(e) ==
    LET v == e.MAX_CONCURRENT IN
    IF v.some /\ ~isNaN(parseInt(v.value)) THEN parseInt(v.value).value
    ELSE DEFAULT_MAX_CONCURRENT

\* getMaxConcurrent: Option(env).map(parseInt).filter(!isNaN(n) && n > 0)
\* .orElse(DEFAULT_MAX_CONCURRENT)
getMaxConcurrent(e) ==
    LET v == e.MAX_CONCURRENT
        mapped == IF v.some THEN Some(parseInt(v.value)) ELSE None
        filtered == IF mapped.some /\ ~isNaN(mapped.value) /\ mapped.value.value > 0
                    THEN mapped ELSE None
    IN  IF filtered.some THEN filtered.value.value ELSE DEFAULT_MAX_CONCURRENT

\* rateLimiterHolder.instance is still undefined: nothing has gone through
\* withRateLimit yet.
NoInstance == \A c \in CallIds : calls[c].pc = "idle"

\* getRateLimiter(): the instance, created by ??= on the first call.
getRateLimiter ==
    IF NoInstance
    THEN [maxConcurrent |-> getMaxConcurrent(env)]
             @@ Semaphore(getMaxConcurrent(env), <<>>)
    ELSE [maxConcurrent |-> maxConcurrent] @@ Semaphore(permits, waitQueue)

\* withRateLimit(fn) up to the await this.acquire() of withPermit.
WithRateLimit(c) ==
    /\ calls[c].pc = "idle"
    /\ LET sem == getRateLimiter
           a == acquire(sem, c)
       IN
        /\ maxConcurrent' = sem.maxConcurrent
        /\ permits' = a.permits
        /\ waitQueue' = a.waitQueue
        /\ calls' = Entered(calls, c, "withPermit", a)
    /\ arrivals' = Append(arrivals, c)
    /\ UNCHANGED <<configured, providers, fan, debate, critique, challenge, env, defaultModels>>

\* The calls that go through withRateLimit.
RateLimitCalls == {1, 2}

\* The characters the explored values of PANEL_MAX_CONCURRENT are made of.
NumberChars == {" ", "-", "0", "1", "7", ".", "x"}

\* The process has started with some PANEL_MAX_CONCURRENT, or without, and
\* no gate exists yet.
MaxConcurrentInit ==
    /\ maxConcurrent = 0
    /\ permits = 0
    /\ waitQueue = <<>>
    /\ calls = [c \in RateLimitCalls |-> IdleCall]
    /\ arrivals = <<>>
    /\ configured = {}
    /\ providers = {}
    /\ fan = IdleFan
    /\ debate = IdleDebate
    /\ critique = IdleCritique
    /\ challenge = IdleChallenge
    /\ env \in [MAX_CONCURRENT : {None} \cup {Some(v) : v \in SeqsUpTo(NumberChars, MaxLen)},
                DEFAULT_MODELS : {None}]
    /\ defaultModels = NoResult

MaxConcurrentNext ==
    \E c \in RateLimitCalls :
        \/ WithRateLimit(c)
        \/ Resume(c)
        \/ \E how \in {"return", "throw"} : WithPermitExit(c, how)

MaxConcurrentSpec == MaxConcurrentInit /\ [][MaxConcurrentNext]_vars

\* PANEL_MAX_CONCURRENT is set and parseInt gives a number greater than 0.
ParsesToPositive ==
    /\ env.MAX_CONCURRENT.some
    /\ ~isNaN(parseInt(env.MAX_CONCURRENT.value))
    /\ parseInt(env.MAX_CONCURRENT.value).value > 0

MaxConcurrentOne ==
    /\ env.MAX_CONCURRENT = Some(<<"1">>)
    /\ maxConcurrent = 1
    /\ Waiting # {}

\* ------------------------------------------------------- getDefaultModels
\* The identifiers of the built-in lists, each held in one piece.
DEFAULT_PANEL_MODELS ==
    << <<"openai/gpt-4o">>, <<"anthropic/claude-sonnet-4-20250514">>,
       <<"google/gemini-2.5-pro">> >>

FALLBACK_FREE_MODELS ==
    << <<"stepfun/step-3.5-flash:free">>, <<"arcee-ai/trinity-large-preview:free">>,
       <<"openrouter/free">> >>

FREE_MODELS_SENTINEL == <<"f", "r", "e", "e">>

RECURSIVE trimEnd(_)
\* The string without its trailing white space.
trimEnd(s) ==
    IF s # <<>> /\ s[Len(s)] = " " THEN trimEnd(SubSeq(s, 1, Len(s) - 1)) ELSE s

\* s.trim()
trim(s) == trimEnd(trimStart(s))

\* s.toLowerCase(), for the letters that occur.
toLowerCase(s) ==
    LET lower == "F" :> "f" @@ "R" :> "r" @@ "E" :> "e" IN
    [i \in 1..Len(s) |-> IF s[i] \in DOMAIN lower THEN lower[s[i]] ELSE s[i]]

RECURSIVE split(_)
\* s.split(","): the pieces between the commas, empty ones included.
split(s) ==
    LET commas == {i \in 1..Len(s) : s[i] = ","} IN
    IF commas = {} THEN <<s>>
    ELSE LET i == CHOOSE k \in commas : \A j \in commas : k <= j IN
         <<SubSeq(s, 1, i - 1)>> \o split(SubSeq(s, i + 1, Len(s)))

\* getDefaultModels: the built-in list when the variable is unset, the
\* fallback free models for "free", else the non-empty trimmed pieces.
getDefaultModels(e) ==
    LET v == e.DEFAULT_MODELS
        pieces(envModels) == split(envModels)
        trimmed(envModels) ==
            [i \in 1..Len(pieces(envModels)) |-> trim(pieces(envModels)[i])]
    IN  IF ~v.some THEN DEFAULT_PANEL_MODELS
        ELSE IF toLowerCase(trim(v.value)) = FREE_MODELS_SENTINEL
        THEN FALLBACK_FREE_MODELS
        ELSE SelectSeq(trimmed(v.value), LAMBDA piece : Len(piece) > 0)

\* A call of getDefaultModels().
GetDefaultModels ==
    /\ defaultModels' = [list |-> getDefaultModels(env)]
    /\ UNCHANGED <<permits, waitQueue, maxConcurrent, calls, arrivals, configured,
                   providers, fan, debate, critique, challenge, env>>

\* The characters the explored values of PANEL_DEFAULT_MODELS are made of,
\* with a and b standing for model identifiers.
ListChars == {",", " ", "a", "b"}

\* The explored values of PANEL_DEFAULT_MODELS: unset, every string of up to
\* MaxLen characters, and the keyword free as such and in capitals with
\* blanks around it.
DefaultModelsValues ==
    {None} \cup {Some(v) : v \in SeqsUpTo(ListChars, MaxLen)}
        \cup {Some(FREE_MODELS_SENTINEL), Some(<<" ", "F", "R", "E", "E", " ">>)}

DefaultModelsInit ==
    /\ maxConcurrent = DEFAULT_MAX_CONCURRENT
    /\ permits = maxConcurrent
    /\ waitQueue = <<>>
    /\ calls = [c \in RateLimitCalls |-> IdleCall]
    /\ arrivals = <<>>
    /\ configured = {}
    /\ providers = {}
    /\ fan = IdleFan
    /\ debate = IdleDebate
    /\ critique = IdleCritique
    /\ challenge = IdleChallenge
    /\ env \in [MAX_CONCURRENT : {None}, DEFAULT_MODELS : DefaultModelsValues]
    /\ defaultModels = NoResult

DefaultModelsNext == GetDefaultModels

DefaultModelsSpec == DefaultModelsInit /\ [][DefaultModelsNext]_vars

\* The comma-separated entries of a value, trimmed, in their order.
EntriesInOrder(v) == [i \in 1..Len(split(v)) |-> trim(split(v)[i])]

\* C23: getDefaultModels always returns a non-empty ordered list of model
\* identifiers: DEFAULT_PANEL_MODELS when PANEL_DEFAULT_MODELS is unset,
\* otherwise the comma-separated entries of the variable, trimmed, in their
\* given order.
C23_DefaultModelsNonEmpty ==
    defaultModels # NoResult =>
        /\ defaultModels.list # <<>>
        /\ \A i \in 1..Len(defaultModels.list) : defaultModels.list[i] # <<>>
        /\ defaultModels.list =
               IF env.DEFAULT_MODELS.some THEN EntriesInOrder(env.DEFAULT_MODELS.value)
               ELSE DEFAULT_PANEL_MODELS

\* C23 witness: PANEL_DEFAULT_MODELS is "," and getDefaultModels() returned
\* the empty list.
C23_Witness ==
    /\ env.DEFAULT_MODELS = Some(<<",">>)
    /\ defaultModels = [list |-> <<>>]

\* With no empty entry and not the keyword free, the list is the trimmed
\* entries in order; unset gives the built-in list.
DefaultModelsAsGiven ==
    /\ (defaultModels # NoResult /\ ~env.DEFAULT_MODELS.some)
           => defaultModels.list = DEFAULT_PANEL_MODELS
    /\ (/\ defaultModels # NoResult
        /\ env.DEFAULT_MODELS.some
        /\ toLowerCase(trim(env.DEFAULT_MODELS.value)) # FREE_MODELS_SENTINEL
        /\ \A i \in 1..Len(EntriesInOrder(env.DEFAULT_MODELS.value)) :
              EntriesInOrder(env.DEFAULT_MODELS.value)[i] # <<>>)
           => defaultModels.list = EntriesInOrder(env.DEFAULT_MODELS.value)

\* ---------------------------------------------------- progress at the gate
\* The Semaphore's users under the scheduling of the event loop: the
\* continuation of a resolved acquire runs, and every task that holds a
\* permit releases it in the end (the test's timer fires, fn settles).
SemFairness ==
    \A c \in TaskIds :
        /\ WF_vars(Resume(c))
        /\ WF_vars(ReleaseCall(c))
        /\ WF_vars(\E how \in {"return", "throw"} : WithPermitExit(c, how))

SemLiveSpec == SemInit /\ [][SemNext]_vars /\ SemFairness

\* C24: no lost wakeup and no starvation: given that every permit holder
\* releases in the end, every caller of acquire obtains a permit; a waiter
\* never stays queued forever.
C24_EveryWaiterIsServed ==
    \A c \in TaskIds :
        /\ (calls[c].pc = "waiting") ~> (Holding(c) /\ calls[c].via = "handoff")
        /\ (calls[c].acquired = 1) ~> (calls[c].pc = "done")

\* C24 witness: on a 1-permit gate all tasks are through, two of them after
\* having waited in the queue.
C24_Witness ==
    /\ maxConcurrent = 1
    /\ \A c \in TaskIds : calls[c].pc = "done"
    /\ Cardinality({c \in TaskIds : calls[c].via = "handoff"}) = 2
    /\ permits = 1

\* ------------------------------------------------------ exactly-once hand-off
\* The waiters woken and the releases made in a step.
Woken == {c \in CallIds : calls[c].pc = "waiting" /\ calls'[c].pc # "waiting"}

Releasing == {c \in CallIds : calls[c].pc = "running" /\ calls'[c].pc = "done"}

\* A step wakes a waiter only by a release, one waiter at most, the head of
\* the queue, which leaves the queue with it; and a call that has been
\* granted its permit is never granted one again.
HandOffOnce ==
    /\ Cardinality(Woken) <= Cardinality(Releasing)
    /\ Cardinality(Releasing) <= 1
    /\ \A c \in Woken :
          /\ c = Head(waitQueue)
          /\ waitQueue' = Tail(waitQueue)
          /\ calls'[c].pc = "granted" /\ calls'[c].via = "handoff"
    /\ \A c \in CallIds :
          calls[c].pc \in {"granted", "running", "done"} =>
              /\ calls'[c].via = calls[c].via
              /\ calls'[c].pc # "waiting"
              /\ calls[c].pc \in {"running", "done"} => calls'[c].pc # "granted"

\* Every waiting call has exactly one resolve in the queue, and the queue
\* holds nothing else.
QueuedOnce ==
    /\ Range(waitQueue) = Waiting
    /\ Len(waitQueue) = Cardinality(Waiting)

\* C25: permit hand-off is exactly-once under any interleaving of acquire
\* and release: each release wakes at most one waiter, each queued waiter is
\* woken by exactly one release, and no two releases satisfy the same waiter.
C25_HandOffExactlyOnce == []QueuedOnce /\ [][HandOffOnce]_vars

\* C25 witness: on a 1-permit gate two releases have woken two different
\* waiters: one is through, the other runs, and the queue is empty.
C25_Witness ==
    /\ maxConcurrent = 1
    /\ waitQueue = <<>>
    /\ \E c, d \in CallIds :
          /\ c # d
          /\ calls[c].via = "handoff" /\ calls[c].pc = "done"
          /\ calls[d].via = "handoff" /\ calls[d].pc = "running"

\* ------------------------------------------------- progress of a fan-out
\* A council_query on its own with openai configured: a model that resolves
\* and one that does not, and generateText answering, failing, or being
\* aborted by its timeout.
FanLiveModels == {GateModel, <<"gpt-4o">>}

FanLiveOutcomes ==
    {[text |-> "alpha"], [thrown |-> TimeoutError],
     [thrown |-> [isError |-> FALSE, value |-> "fetch failed"]]}

FanLiveInit ==
    /\ maxConcurrent \in 1..MaxPermits
    /\ permits = maxConcurrent
    /\ waitQueue = <<>>
    /\ calls = [c \in FanCalls |-> IdleCall]
    /\ arrivals = <<>>
    /\ configured = {"openai"}
    /\ providers = {}
    /\ fan = IdleFan
    /\ debate = IdleDebate
    /\ critique = IdleCritique
    /\ challenge = IdleChallenge
    /\ env = EnvFor(maxConcurrent)
    /\ defaultModels = NoResult

FanLiveNext ==
    \/ \E models \in SeqsUpTo(FanLiveModels, MaxModels) : CouncilQuery(models)
    \/ \E c \in FanCalls : Resume(c)
    \/ \E c \in FanCalls : \E o \in FanLiveOutcomes : GenerateTextSettles(c, o)
    \/ QueryModelsSettles

\* queryModels under the scheduling of the event loop: the continuation of
\* a resolved acquire runs, every generateText that was called settles (it
\* answers, fails, or is aborted by its timeout), and the continuation of a
\* settled Promise.all runs.
FanFairness ==
    /\ \A c \in FanCalls :
          /\ WF_vars(Resume(c))
          /\ WF_vars(\E o \in FanLiveOutcomes : GenerateTextSettles(c, o))
    /\ WF_vars(QueryModelsSettles)

FanLiveSpec == FanLiveInit /\ [][FanLiveNext]_vars /\ FanFairness

\* queryModels starts over N models that all resolve, with N above the
\* permit count P: the first P queries hold a permit and the others are
\* queued in input order.
AdmitsFirstP ==
    (fan.status = "idle" /\ fan'.status = "pending") =>
        LET N == Len(fan'.models)
            P == maxConcurrent
        IN  ((\A i \in 1..N : calls'[i].acquired = 1) /\ N > P) =>
                /\ \A i \in 1..P : calls'[i].pc = "granted" /\ calls'[i].via = "direct"
                /\ \A i \in (P + 1)..N : calls'[i].pc = "waiting"
                /\ waitQueue' = [k \in 1..(N - P) |-> P + k]
                /\ permits' = 0

\* C26: a fan-out over N models with P permits and N > P terminates: the
\* first P queries are admitted at once, the other N-P wait in the gate's
\* queue, every queued query is admitted in the end as earlier ones settle
\* (by success, error or timeout), and queryModels returns all N results.
C26_FanOutTerminates ==
    /\ [][AdmitsFirstP]_vars
    /\ \A c \in FanCalls : (calls[c].pc = "waiting") ~> Holding(c)
    /\ (fan.status = "pending") ~>
           (/\ fan.status = "returned"
            /\ Len(fan.out.responses) + Len(fan.out.errors) = FanN)

\* C26 witness: a fan-out of 3 on a 2-permit gate has returned its 3 results;
\* the third query had to wait and was admitted when an earlier one was
\* aborted by its timeout.
C26_Witness ==
    /\ maxConcurrent = 2
    /\ fan.status = "returned"
    /\ FanN = 3
    /\ \A i \in 1..3 : calls[i].acquired = 1
    /\ calls[3].via = "handoff"
    /\ fan.first \in {1, 2} /\ calls[fan.first].exit = "throw"
    /\ Len(fan.out.responses) + Len(fan.out.errors) = 3

\* ------------------------------------------- a query that does not resolve
\* queryModel is called in slot c in this step.
QueryStarts(c) ==
    /\ calls[c].pc \in {"idle", "done"}
    /\ calls'[c] # calls[c]
    /\ calls'[c].kind = "query"

\* The step of a queryModel call whose model does not resolve: the call is
\* over with the Failure of resolveModel, and the gate, the provider cache
\* and every other call are as before.
FailsOutsideTheGate(c) ==
    LET ms == calls'[c].model
        r == resolveModel(ms, providers)
    IN  ~r.ok =>
            /\ calls'[c].pc = "done"
            /\ calls'[c].result = [model |-> ms, error |-> r.error]
            /\ calls'[c].acquired = 0 /\ calls'[c].released = 0
            /\ calls'[c].via = "none" /\ calls'[c].exit = "none"
            /\ permits' = permits
            /\ waitQueue' = waitQueue
            /\ arrivals' = arrivals
            /\ providers' = providers
            /\ \A d \in CallIds \ {c} : calls'[d] = calls[d]

\* C27: when model resolution fails, queryModel returns the Failure at once
\* without entering the gate: it takes no permit, joins no wait queue and
\* makes no outbound call, so the gate's permit count and wait queue are
\* unchanged by the call.
C27_ResolutionFailureSkipsGate ==
    [][\A c \in CallIds : QueryStarts(c) => FailsOutsideTheGate(c)]_vars

\* C27 witness: on a 1-permit gate held by the debate's running affirmative
\* query, a query_model call for a model that does not resolve is over with
\* its Failure, and the permit count and the queue are untouched.
C27_Witness ==
    /\ maxConcurrent = 1
    /\ calls[AffCall].pc = "running"
    /\ calls[SingleCall].pc = "done"
    /\ calls[SingleCall].acquired = 0
    /\ isModelError(calls[SingleCall].result)
    /\ permits = 0
    /\ waitQueue = <<>>

\* -------------------------------------------------- a debate turn that fails
\* A debate query is issued in a step only when the turn before it has
\* succeeded, and a rejected debate does nothing more.
IssuesOnlyAfterSuccess ==
    /\ QueryStarts(NegCall) =>
          /\ debate.status = "affirmative"
          /\ QueryDone(AffCall) /\ isModelResponse(calls[AffCall].result)
          /\ debate'.round = debate.round
    /\ QueryStarts(AffCall) =>
          \/ debate.status = "idle"
          \/ /\ debate.status = "negative"
             /\ QueryDone(NegCall) /\ isModelResponse(calls[NegCall].result)
    /\ debate.status = "rejected" =>
          /\ debate' = debate
          /\ calls'[AffCall] = calls[AffCall]
          /\ calls'[NegCall] = calls[NegCall]

\* The queries a rejected debate has issued end with the one that failed:
\* both turns of every round before, and the failing round up to its failed
\* turn.
StoppedAtFailedTurn ==
    debate.status = "rejected" =>
        /\ isModelError(calls[FailingCall].result)
        /\ Len(debate.issued) =
               2 * (FailingRound - 1) + (IF FailingSide = "Affirmative" THEN 1 ELSE 2)
        /\ \A c \in DebateCalls : calls[c].pc \in {"idle", "done"}

\* C28: after a debate turn fails, the debate issues no further queries: a
\* failed affirmative turn in round r means the negative model is not
\* queried in round r, and after any failed turn in round r no query of a
\* later round is issued.
C28_NoQueryAfterFailedTurn == []StoppedAtFailedTurn /\ [][IssuesOnlyAfterSuccess]_vars

\* C28 witness: the affirmative turn of round 2 failed: the debate is
\* rejected with three queries issued, the negative model was queried in
\* round 1 only.
C28_Witness ==
    /\ debate.status = "rejected"
    /\ FailingSide = "Affirmative"
    /\ FailingRound = 2
    /\ Len(debate.issued) = 3
    /\ debate.numRoundsX2 >= 2 * 2

\* ------------------------------------------------- provider instance cache
\* The resolveModel calls that created the instance of provider p.
Creators(p) == {c \in CallIds : ResolveDone(c) /\ p \in calls[c].result.created}

\* The resolveModel calls that were bound to the instance of provider p.
BoundTo(p) ==
    {c \in CallIds : ResolveDone(c) /\ calls[c].result.ok
                        /\ calls[c].result.model.provider = p}

\* C29: for each provider, over any sequence of resolveModel calls while it
\* is configured, the provider instance is constructed at most once, and
\* every later resolution for that provider uses that cached instance.
C29_ProviderCreatedOnce ==
    /\ providers \subseteq configured
    /\ \A p \in ALL_PROVIDERS :
          /\ Cardinality(Creators(p)) <= 1
          /\ Creators(p) \subseteq BoundTo(p)
          /\ BoundTo(p) # {} => p \in providers
          /\ \A c \in BoundTo(p) :
                /\ calls[c].result.created = {p} \ calls[c].result.before
                /\ \A d \in BoundTo(p) : c < d => p \in calls[d].result.before
    /\ \A c \in CallIds :
          ResolveDone(c) =>
              /\ calls[c].result.before \subseteq providers
              /\ ~calls[c].result.ok => calls[c].result.created = {}

\* C29 witness: three resolutions were bound to the OpenRouter instance, by
\* the openrouter/ prefix, by the fallback of a direct prefix and by an
\* identifier without prefix; the first created it, the others found it.
C29_Witness ==
    /\ BoundTo("openrouter") = {1, 2, 3}
    /\ Creators("openrouter") = {1}
    /\ \E c \in 1..3 : HasPrefix(calls[c].model, "openrouter")
    /\ \E c \in 1..3 : HasPrefix(calls[c].model, "anthropic")
    /\ \E c \in 1..3 : Len(calls[c].model) = 1
    /\ providers = {"openrouter"}

\* ------------------------------------------------ fields of a parsed critique
\* The fields of the record the critic's text parses to.
CriticRecord == JSONparse(extractJson(CriticResult.text)).value.fields

\* The record has no such field, or has it as null.
Absent(name) == name \notin DOMAIN CriticRecord \/ CriticRecord[name] = JNull

C31_NoFreePermitWhileQueued ==
    /\ permits >= 0
    /\ (waitQueue # <<>> => permits = 0)

\* C31 witness: a release with two calls queued has handed the permit to the
\* older one; the younger one is still queued and the counter is still 0.
C31_Witness ==
    /\ permits = 0
    /\ Len(waitQueue) = 1
    /\ \E c \in CallIds : calls[c].pc = "done"
    /\ \E h \in Holders : calls[h].via = "handoff"

\* ---------------------------------------------------- permit conservation
\* Every call has finished or was never made.
AllFinished == \A c \in CallIds : calls[c].pc \in {"idle", "done"}

\* C32: when every use of the gate goes through withPermit, the permit
\* counter plus the number of calls that hold a permit (the waiters that were
\* handed one included) is the initial P in every reachable state, and once
\* all calls have finished the counter is back to exactly P.
C32_PermitConservation ==
    /\ permits + Cardinality(Holders) = maxConcurrent
    /\ (AllFinished => permits = maxConcurrent)

\* C32 witness: a fan-out of 3 and a query_model call went through a 2-permit
\* gate, one of them was handed its permit by a query that timed out, all
\* have finished and both permits are back.
C32_Witness ==
    /\ maxConcurrent = 2
    /\ \A c \in CallIds : calls[c].pc = "done" /\ calls[c].kind = "query"
    /\ \E c, d \in CallIds : calls[c].exit = "throw" /\ calls[d].via = "handoff"
    /\ permits = 2

\* ------------------------------------------------------- deadlock freedom
\* An operation has been started and has not ended: a query is queued or
\* admitted, or a tool awaits its queries.
Unfinished ==
    \/ \E c \in CallIds : calls[c].pc \in {"waiting", "granted", "running"}
    \/ fan.status = "pending"
    \/ challenge.status = "pending"
    \/ critique.status = "pending"
    \/ debate.status \in {"affirmative", "negative"}

\* One of the started operations can take its next step: an admitted query
\* resumes or settles, or a tool's await ends.  The start of a further tool
\* call does not count.
CanProgress ==
    \/ \E c \in CallIds : ENABLED Resume(c)
    \/ \E c \in CallIds : \E o \in GenerateTextOutcomes : ENABLED GenerateTextSettles(c, o)
    \/ ENABLED QueryModelsSettles
    \/ ENABLED ChallengeSettles
    \/ ENABLED AffirmativeSettles
    \/ ENABLED NegativeSettles
    \/ ENABLED CritiqueSettles

\* C33: with fan-outs, a debate, a critique and a single query sharing the
\* gate of any P >= 1, no state is reachable in which an operation is
\* unfinished and none can progress: a queued query always has an admitted
\* one before it, and every admitted query can settle.
C33_NoDeadlock ==
    /\ Unfinished => CanProgress
    /\ Waiting # {} => Holders # {}

\* C33 witness: on a 1-permit gate the debate's query holds the permit while
\* the queries of a fan-out of 3, of the critique and of query_model are all
\* queued behind it.
C33_Witness ==
    /\ maxConcurrent = 1
    /\ Holders = {AffCall}
    /\ Waiting = FanCalls \cup {SingleCall, CritiqueCall}
    /\ debate.status = "affirmative"
    /\ critique.status = "pending"

\* ------------------------------------------- one query per debate at a time
\* The debate's queries that wait for a permit or hold one.
DebateOutstanding ==
    {c \in DebateCalls : calls[c].pc \in {"waiting", "granted", "running"}}

\* The debate issues a query in this step.
DebateIssues == Len(debate'.issued) > Len(debate.issued)

\* C34: a debate has at most one query outstanding (waiting for a permit or
\* holding one) at any time: a query is issued only when the one before it has
\* settled, so one debate never occupies more than one permit of the gate.
C34_OneDebateQueryAtATime ==
    /\ [](Cardinality(DebateOutstanding) <= 1)
    /\ [](Cardinality(DebateCalls \cap Holders) <= 1)
    /\ [][DebateIssues => DebateOutstanding = {}]_vars

\* C34 witness: on a 2-permit gate, in round 2 of a debate, the negative
\* query holds the one permit the debate has; the affirmative query of the
\* round is done and the other permit is free.
C34_Witness ==
    /\ maxConcurrent = 2
    /\ debate.status = "negative" /\ debate.round = 2
    /\ DebateOutstanding = {NegCall}
    /\ calls[NegCall].pc = "running"
    /\ calls[AffCall].pc = "done"
    /\ permits = 1

\* ------------------------------------------- the timeout runs inside the gate
\* Call c has ended as the Failure of a timeout.
TimedOut(c) ==
    /\ calls[c].pc = "done"
    /\ calls[c].result = [model |-> calls[c].model, error |-> errorText(TimeoutError)]

\* A queued query stays as it is until a release hands it a permit.
QueuedOnlyAdmitted ==
    \A c \in CallIds :
        calls[c].pc = "waiting" =>
            \/ calls'[c] = calls[c]
            \/ calls'[c] = [calls[c] EXCEPT !.pc = "granted", !.via = "handoff"]

\* A query settles only from inside the guarded section.
SettlesOnlyInside ==
    \A c \in CallIds :
        (calls[c].pc \in {"waiting", "granted", "running"} /\ calls'[c].pc = "done")
            => calls[c].pc = "running"

\* C35: the per-query timeout starts once the gate has admitted the query: a
\* query in the gate's queue cannot time out or settle in any other way while
\* it waits, and every Failure of a timeout is that of a query that held a
\* permit and gave it back.
C35_TimeoutOnlyAfterAdmission ==
    /\ [][QueuedOnlyAdmitted /\ SettlesOnlyInside]_vars
    /\ [](\A c \in CallIds :
             TimedOut(c) => /\ calls[c].acquired = 1
                            /\ calls[c].via \in {"direct", "handoff"}
                            /\ calls[c].released = 1)

\* C35 witness: on a 1-permit gate the second query of a fan-out waited, was
\* handed the permit and then timed out, while the first had answered and the
\* third still holds no result.
C35_Witness ==
    /\ maxConcurrent = 1
    /\ Len(fan.models) = 3
    /\ isModelResponse(calls[1].result)
    /\ TimedOut(2) /\ calls[2].via = "handoff"
    /\ calls[3].pc \in {"granted", "running"}
    /\ calls[SingleCall].pc = "waiting"

\* ------------------------------------------------ order of a fan-out's result
\* The query of input position i answered.
QuerySucceeded(i) == ~QueryFailed(i)

\* The input position of the k-th query, in input order, that satisfies P.
NthInput(P(_), k) ==
    CHOOSE i \in 1..FanN : P(i) /\ Cardinality({j \in 1..i : P(j)}) = k

\* q holds the results of the queries that satisfy P, in input order.
InInputOrder(q, P(_)) ==
    /\ Len(q) = Cardinality({i \in 1..FanN : P(i)})
    /\ \A k \in 1..Len(q) : q[k] = calls[NthInput(P, k)].result

\* C36: queryModels returns the responses in the relative order of the input
\* model list, and the errors likewise, whatever the order in which the
\* queries completed.
C36_ResultsInInputOrder ==
    fan.status = "returned" =>
        /\ InInputOrder(fan.out.responses, QuerySucceeded)
        /\ InInputOrder(fan.out.errors, QueryFailed)

\* C36 witness: of three queries the second one settled first and the third
\* one failed; the responses are those of the first and of the second input,
\* in that order, for different identifiers and with different texts.
C36_Witness ==
    /\ fan.status = "returned"
    /\ FanN = 3
    /\ fan.first = 2
    /\ fan.models[1] # fan.models[2]
    /\ calls[3].exit = "throw"
    /\ Len(fan.out.responses) = 2
    /\ fan.out.responses[1] = calls[1].result
    /\ fan.out.responses[2] = calls[2].result
    /\ calls[1].result.text # calls[2].result.text
    /\ fan.out.errors = <<calls[3].result>>

\* -------------------------------------------- summary of a challenge result
RECURSIVE SumOver(_, _)
\* The sum of f over the keys in S.
SumOver(f, S) ==
    IF S = {} THEN 0
    ELSE LET x == CHOOSE y \in S : TRUE IN f[x] + SumOver(f, S \ {x})

\* The challenges of the result whose severity is one of the three.
KnownSeverity ==
    {i \in 1..Len(challenge.out.challenges) :
        /\ challenge.out.challenges[i].severity.type = "string"
        /\ challenge.out.challenges[i].severity.value \in Severities}

\* C37 as stated: in every challenge result totalChallenges is the number of
\* returned challenges, the sum of bySeverity over minor, moderate and
\* significant, and the sum of all byType counts; every returned challenge
\* has a severity among the three and a challengeType of the fixed set.
C37_SummaryConsistent ==
    challenge.status = "returned" =>
        LET cs == challenge.out.challenges
            s == challenge.out.summary
        IN  /\ s.totalChallenges = Len(cs)
            /\ s.totalChallenges = SumOver(s.bySeverity, Severities)
            /\ s.totalChallenges = SumOver(s.byType, DOMAIN s.byType)
            /\ \A i \in 1..Len(cs) :
                  /\ i \in KnownSeverity
                  /\ cs[i].challengeType \in ALL_CHALLENGE_TYPES

\* C37 failing state: the one returned challenge has the severity critical;
\* totalChallenges is 1, minor, moderate and significant are all 0, and
\* bySeverity has got the key critical with the value NaN.
C37_Witness ==
    /\ challenge.status = "returned"
    /\ Len(challenge.out.challenges) = 1
    /\ challenge.out.challenges[1].severity = JString("critical")
    /\ challenge.out.summary.totalChallenges = 1
    /\ SumOver(challenge.out.summary.bySeverity, Severities) = 0
    /\ DOMAIN challenge.out.summary.bySeverity = Severities \cup {"critical"}
    /\ challenge.out.summary.bySeverity["critical"] = "NaN"

\* What holds of every challenge result: the counts by type and the total
\* agree with the list, every challengeType is of the fixed set, and the
\* three severity counts add up to the challenges with one of those three.
SummaryOfKnownSeverities ==
    challenge.status = "returned" =>
        LET cs == challenge.out.challenges
            s == challenge.out.summary
        IN  /\ s.totalChallenges = Len(cs)
            /\ s.totalChallenges = SumOver(s.byType, DOMAIN s.byType)
            /\ \A i \in 1..Len(cs) : cs[i].challengeType \in ALL_CHALLENGE_TYPES
            /\ SumOver(s.bySeverity, Severities) = Cardinality(KnownSeverity)

\* ------------------------------------------------ the model field of a result
\* C38: the record a queryModel call returns has the model field equal to the
\* modelString it was called with, on success and on failure alike, so every
\* entry of a fan-out result is matched by position to the input identifier
\* that produced it.
C38_ModelFieldIsInput ==
    /\ \A c \in CallIds :
          QueryDone(c) => /\ "model" \in DOMAIN calls[c].result
                          /\ calls[c].result.model = calls[c].model
    /\ \A i \in 1..FanN : calls[i].model = fan.models[i]
    /\ fan.status = "returned" =>
          /\ \A k \in 1..Len(fan.out.responses) :
                fan.out.responses[k].model = fan.models[NthInput(QuerySucceeded, k)]
          /\ \A k \in 1..Len(fan.out.errors) :
                fan.out.errors[k].model = fan.models[NthInput(QueryFailed, k)]

\* C38 witness: with only openai configured, a fan-out over a prefixed
\* identifier twice and a bare one has returned: the first answered, the
\* second threw, the third did not resolve, and each record carries the
\* identifier of its input.
C38_Witness ==
    /\ fan.status = "returned"
    /\ fan.models = <<<<"openai", "gpt-4o">>, <<"openai", "gpt-4o">>, <<"gpt-4o">>>>
    /\ isModelResponse(calls[1].result) /\ calls[1].result.model = <<"openai", "gpt-4o">>
    /\ calls[2].exit = "throw" /\ calls[2].result.model = <<"openai", "gpt-4o">>
    /\ calls[3].acquired = 0 /\ calls[3].result.model = <<"gpt-4o">>
    /\ ModelsOf(fan.out.errors) = <<<<"openai", "gpt-4o">>, <<"gpt-4o">>>>

\* ------------------------------------------------ totalExchanges and rounds
\* C39 as stated: for every rounds argument the debate tool accepts (any
\* number from 1 to MAX_DEBATE_ROUNDS, or none, which means 2), a successful
\* debate returns metadata.totalExchanges equal to twice the number of
\* DebateRound entries in rounds.
C39_TotalExchangesTwiceRounds ==
    debate.status = "returned" =>
        debate.out.metadata.totalExchanges = 2 * Len(debate.out.rounds)

\* C39 failing state: the debate was called with rounds = 1.5 and has
\* returned one DebateRound entry with totalExchanges 3.
C39_Witness ==
    /\ debate.status = "returned"
    /\ debate.numRoundsX2 = 3
    /\ Len(debate.out.rounds) = 1
    /\ debate.out.metadata.totalExchanges = 3

\* What holds for every accepted argument: the entries are those of the
\* integer part of the argument, totalExchanges is twice the argument itself,
\* and the two agree exactly when the argument is a whole number or omitted.
TotalExchangesTwiceArgument ==
    debate.status = "returned" =>
        /\ Len(debate.out.rounds) = debate.numRoundsX2 \div 2
        /\ debate.out.metadata.totalExchanges = debate.numRoundsX2
        /\ (debate.numRoundsX2 % 2 = 0
               <=> debate.out.metadata.totalExchanges = 2 * Len(debate.out.rounds))

====
